---- MODULE Spec2Model ----
(***************************************************************************)
(* KFITER import reconciliation engine: smart_import.py (analyze / apply), *)
(* queries.py (customer upsert, contract reconciliation, hold store) and   *)
(* utils.py (masked-name verifier).                                        *)
(*                                                                         *)
(* Text is modelled as a sequence of one-character strings, so that every  *)
(* normaliser is computed character by character as the code computes it.  *)
(* A SHA-1 digest of a joined field list is modelled by the field tuple    *)
(* itself (digest collisions are not modelled).                            *)
(***************************************************************************)
EXTENDS Integers, Sequences, FiniteSets, TLC

VARIABLES
    customers,   \* customers table: set of rows
    contracts,   \* contracts table: set of rows
    holds,       \* upload_holds table: set of rows
    seqs,        \* AUTOINCREMENT counters of the three tables
    ana,         \* the analysis held by the upload page (session state)
    log,         \* what the last operation did and returned
    nm,          \* arguments and result of the masked-name verifier
    ops,         \* number of operations performed so far
    trail,       \* hold_decisions, approval_proofs and audit_logs: set of records
    conns        \* the call in flight on each of two connections

vars == <<ops, trail, customers, contracts, holds, seqs, ana, nm, conns, log>>

(***************************************************************************)
(* Characters and text helpers                                             *)
(***************************************************************************)
WS == {" "}
DigitCh == {"0", "1", "2", "3", "4", "5", "6", "7", "8", "9"}
UpperCh == {"A", "B", "C", "K", "L", "M", "P", "S", "X"}
LowerCh == {"a", "b", "c", "k", "l", "m", "p", "s", "x"}
\* non-ASCII characters are written as tokens: "U+C8FC" is the Hangul syllable
\* of "(ju)" = "(U+C8FC)", "U+3231" is the one-character corporate mark
HangulCh == {"U+C8FC", "U+AE40"}
OtherCh == {"U+3231", "(", ")", "-", "*", "?"}

CasePairs ==
    {<<"A", "a">>, <<"B", "b">>, <<"C", "c">>, <<"K", "k">>, <<"L", "l">>,
     <<"M", "m">>, <<"P", "p">>, <<"S", "s">>, <<"X", "x">>}

\* str.lower() of one character
lower_ch(c) ==
    IF \E p \in CasePairs : p[1] = c
    THEN (CHOOSE p \in CasePairs : p[1] = c)[2]
    ELSE c

\* str.upper() of one character
upper_ch(c) ==
    IF \E p \in CasePairs : p[2] = c
    THEN (CHOOSE p \in CasePairs : p[2] = c)[1]
    ELSE c

lower(s) == [i \in 1..Len(s) |-> lower_ch(s[i])]
upper(s) == [i \in 1..Len(s) |-> upper_ch(s[i])]

RECURSIVE lstrip(_)
lstrip(s) == IF s # <<>> /\ Head(s) \in WS THEN lstrip(Tail(s)) ELSE s

RECURSIVE rstrip(_)
rstrip(s) ==
    IF s # <<>> /\ s[Len(s)] \in WS THEN rstrip(SubSeq(s, 1, Len(s) - 1)) ELSE s

\* str.strip()
strip(s) == rstrip(lstrip(s))

IsDigit(c) == c \in DigitCh
NotWS(c) == c \notin WS
IsAlnum(c) == c \in DigitCh \cup UpperCh \cup LowerCh

\* re.sub(r"\D", "", s)
digits_only(s) == SelectSeq(s, IsDigit)

\* re.sub(r"\s+", "", s)  and  s.replace(" ", "")
remove_ws(s) == SelectSeq(s, NotWS)

\* re.sub(r"\s+", " ", s)
RECURSIVE collapse_ws(_)
collapse_ws(s) ==
    IF s = <<>> THEN <<>>
    ELSE IF Head(s) \in WS
         THEN <<" ">> \o collapse_ws(lstrip(s))
         ELSE <<Head(s)>> \o collapse_ws(Tail(s))

\* s[-n:]
last_n(s, n) == IF Len(s) <= n THEN s ELSE SubSeq(s, Len(s) - n + 1, Len(s))

\* s[:n]
first_n(s, n) == IF Len(s) <= n THEN s ELSE SubSeq(s, 1, n)

\* k in s
contains(s, k) ==
    \E i \in 1..(Len(s) - Len(k) + 1) : SubSeq(s, i, i + Len(k) - 1) = k

\* s.replace(k, "")
RECURSIVE remove_all(_, _)
remove_all(s, k) ==
    IF Len(s) < Len(k) \/ s = <<>> THEN s
    ELSE IF SubSeq(s, 1, Len(k)) = k
         THEN remove_all(SubSeq(s, Len(k) + 1, Len(s)), k)
         ELSE <<Head(s)>> \o remove_all(Tail(s), k)

\* int(digits) of a digit sequence, 0 for the empty one
DigitVal(c) ==
    CASE c = "0" -> 0 [] c = "1" -> 1 [] c = "2" -> 2 [] c = "3" -> 3
      [] c = "4" -> 4 [] c = "5" -> 5 [] c = "6" -> 6 [] c = "7" -> 7
      [] c = "8" -> 8 [] c = "9" -> 9

RECURSIVE to_int(_)
to_int(d) ==
    IF d = <<>> THEN 0
    ELSE 10 * to_int(SubSeq(d, 1, Len(d) - 1)) + DigitVal(d[Len(d)])

(***************************************************************************)
(* queries.py normalisers.  A missing value (None) is the empty text.      *)
(***************************************************************************)
NoId == 0

normalize_phone(phone) == digits_only(phone)

phone_last4(phone) ==
    LET d == normalize_phone(phone) IN IF Len(d) >= 4 THEN last_n(d, 4) ELSE <<>>

make_match_key(name, phone_or_last4) ==
    IF name = <<>> THEN <<>>
    ELSE LET first == first_n(strip(name), 1)
             d     == digits_only(phone_or_last4)
             last4 == IF Len(d) > 4 THEN last_n(d, 4) ELSE d
         IN  IF first # <<>> /\ Len(last4) = 4 THEN first \o last4 ELSE <<>>

\* the keywords of corp_kws that can be written over the model's alphabet;
\* the Latin words of the regular expression (CORP, LTD, INC, ...) cannot
CorpKws == {<<"U+3231">>, <<"(", "U+C8FC", ")">>}

_is_corporate_name(name) ==
    LET n == strip(name) IN
    IF n = <<>> THEN FALSE ELSE \E k \in CorpKws : contains(n, k)

IsBracket(c) == c \in {"(", ")", "[", "]", "{", "}"}
NotBracket(c) == ~IsBracket(c)

_norm_org_name(name) ==
    LET n == strip(name) IN
    IF n = <<>> THEN <<>>
    ELSE LET n1 == SelectSeq(n, LAMBDA c : c # " ")
             n2 == remove_all(n1, <<"(", "U+C8FC", ")">>)
             n3 == remove_all(n2, <<"U+3231">>)
         IN  SelectSeq(n3, NotBracket)

_norm_text(x) == lower(collapse_ws(strip(x)))

IsNameCh(c) == c \in DigitCh \cup UpperCh \cup LowerCh \cup HangulCh \cup {"*"}

_norm_name(x) == SelectSeq(_norm_text(x), IsNameCh)

_norm_birth(x) ==
    LET s == digits_only(x) IN IF Len(s) >= 8 THEN first_n(s, 8) ELSE s

\* the normaliser without the change to upper case
_norm_policy_no_keepcase(x) == SelectSeq(remove_ws(strip(x)), IsAlnum)

_norm_policy_no(x) == upper(SelectSeq(remove_ws(strip(x)), IsAlnum))

\* pandas.to_datetime succeeds on the two date spellings of the model:
\* YYYYMMDD and YYYY-MM-DD (of a valid calendar date); Excel serials and
\* the texts "nan"/"none" cannot be written over the model's alphabet
IsCompactDate(s) == Len(s) = 8 /\ \A i \in 1..8 : s[i] \in DigitCh
IsIsoDate(s) ==
    /\ Len(s) = 10
    /\ s[5] = "-" /\ s[8] = "-"
    /\ \A i \in {1, 2, 3, 4, 6, 7, 9, 10} : s[i] \in DigitCh

_norm_date(x) ==
    LET s == strip(x) IN
    IF s = <<>> THEN <<>>
    ELSE IF IsIsoDate(s) THEN s
    ELSE IF IsCompactDate(s)
         THEN SubSeq(s, 1, 4) \o <<"-">> \o SubSeq(s, 5, 6) \o <<"-">> \o SubSeq(s, 7, 8)
    ELSE lower(remove_ws(s))

\* premium arrives as text; the result is an integer, and _norm_premium of
\* that integer is the integer itself
_norm_premium(x) == to_int(digits_only(x))

(***************************************************************************)
(* Contract hashes (queries.py).  cid is str(customer_id or "").           *)
(***************************************************************************)
\* both None and 0 give the empty text; it is modelled by NoId
CidStr(customer_id) == customer_id

_contract_key_hash(customer_id, company, policy_no, product_name, start_date, premium, insured_birth, insured_name) ==
    LET pol == _norm_policy_no(policy_no) IN
    IF pol # <<>>
    THEN <<"P", CidStr(customer_id), _norm_text(company), pol>>
    ELSE LET discr == IF _norm_birth(insured_birth) # <<>>
                      THEN _norm_birth(insured_birth)
                      ELSE _norm_name(insured_name)
         IN  <<"N", CidStr(customer_id), _norm_text(company),
               _norm_text(product_name), _norm_date(start_date), premium, discr>>

_contract_stable_hash(customer_id, company, product_name, start_date, premium, insured_birth, insured_name, insured_gender) ==
    LET discr == IF _norm_birth(insured_birth) # <<>>
                 THEN _norm_birth(insured_birth)
                 ELSE _norm_name(insured_name)
    IN  <<"S", CidStr(customer_id), _norm_text(company), _norm_text(product_name),
          _norm_date(start_date), premium, discr, _norm_text(insured_gender)>>

_contract_content_hash(customer_id, company, product_name, policy_no, premium, status, start_date, end_date, insured_name, insured_phone, insured_birth, insured_gender, coverage_summary) ==
    <<CidStr(customer_id), _norm_text(company), _norm_text(product_name),
      _norm_policy_no(policy_no), premium, _norm_text(status),
      _norm_date(start_date), _norm_date(end_date), _norm_name(insured_name),
      _norm_text(insured_phone), _norm_birth(insured_birth),
      _norm_text(insured_gender), _norm_text(coverage_summary)>>

(***************************************************************************)
(* SQL helpers: rows of a table in ORDER BY id ASC, LIMIT n                *)
(***************************************************************************)
RECURSIVE ById(_)
ById(rows) ==
    IF rows = {} THEN <<>>
    ELSE LET r == CHOOSE x \in rows : \A y \in rows : x.id <= y.id
         IN  <<r>> \o ById(rows \ {r})

Limit(rows, n) == first_n(ById(rows), n)

Ids(rows) == {r.id : r \in rows}
RowOf(rows, id) == CHOOSE r \in rows : r.id = id

(***************************************************************************)
(* queries.add_contract                                                    *)
(* a: the call's arguments; custs, conts: the tables; next: the contracts  *)
(* AUTOINCREMENT counter.  Result: the returned text and the tables after. *)
(***************************************************************************)
OrElse(x, y) == IF x # <<>> THEN x ELSE y

\* the one element of a set {e : x \in {v}}: e with x bound to the value of v
Only(S) == CHOOSE x \in S : TRUE

\* first row of a result list whose content_hash is the incoming one
RECURSIVE FirstWithContent(_, _)
FirstWithContent(rows, ch) ==
    IF rows = <<>> THEN NoId
    ELSE IF Head(rows).content_hash = ch THEN Head(rows).id
    ELSE FirstWithContent(Tail(rows), ch)

\* step 2: policy_no_norm within the customer (LIMIT 5)
PolicyMatch(conts, customer_id, pol_norm, content_hash) ==
    IF pol_norm = <<>> THEN NoId
    ELSE LET rows == Limit({c \in conts : c.customer_id = customer_id
                                          /\ c.policy_no_norm = pol_norm}, 5)
             same == FirstWithContent(rows, content_hash)
         IN  IF rows = <<>> THEN NoId
             ELSE IF same # NoId THEN same
             ELSE IF Len(rows) = 1 THEN rows[1].id
             ELSE NoId

\* a step 3 that finds nothing
StableMatch_skipped(conts, customer_id, stable_hash, pol_norm, content_hash) ==
    [ambig |-> FALSE, id |-> NoId]

\* a step 3 that takes the first of several rows whatever their numbers
StableMatch_first(conts, customer_id, stable_hash, pol_norm, content_hash) ==
    LET rows == Limit({c \in conts : c.customer_id = customer_id
                                      /\ c.stable_hash = stable_hash}, 10)
        same == FirstWithContent(rows, content_hash)
    IN  IF rows = <<>> THEN [ambig |-> FALSE, id |-> NoId]
        ELSE IF same # NoId THEN [ambig |-> FALSE, id |-> same]
        ELSE [ambig |-> FALSE, id |-> rows[1].id]

\* step 3: stable_hash within the customer (LIMIT 10); "ambig" or a row id
StableMatch(conts, customer_id, stable_hash, pol_norm, content_hash) ==
    LET rows == Limit({c \in conts : c.customer_id = customer_id
                                      /\ c.stable_hash = stable_hash}, 10)
        same == FirstWithContent(rows, content_hash)
        policy_set == {rows[i].policy_no_norm : i \in 1..Len(rows)} \ {<<>>}
    IN  IF rows = <<>> THEN [ambig |-> FALSE, id |-> NoId]
        ELSE IF same # NoId THEN [ambig |-> FALSE, id |-> same]
        ELSE IF Len(rows) = 1 THEN [ambig |-> FALSE, id |-> rows[1].id]
        ELSE IF pol_norm = <<>> /\ policy_set = {}
             THEN [ambig |-> FALSE, id |-> rows[1].id]
        ELSE [ambig |-> TRUE, id |-> NoId]

\* policyholder fields as add_contract completes them (lines 371-387)
PolicyholderFields(a) ==
    LET ph_name == OrElse(strip(a.policyholder_name), strip(a.insured_name))
        ph_type == IF a.policyholder_type # ""
                   THEN a.policyholder_type
                   ELSE IF _is_corporate_name(ph_name) THEN "CORP" ELSE "PERSON"
        ph_norm == OrElse(strip(a.policyholder_norm), _norm_org_name(ph_name))
        pr_role == IF a.primary_role # ""
                   THEN a.primary_role
                   ELSE IF /\ ph_type = "CORP"
                           /\ strip(a.insured_name) # <<>>
                           /\ ph_name # <<>>
                           /\ SelectSeq(ph_name, LAMBDA c : c # " ")
                                # SelectSeq(strip(a.insured_name), LAMBDA c : c # " ")
                        THEN "INSURED"
                        ELSE "POLICYHOLDER"
    IN  [policyholder_name |-> ph_name, policyholder_type |-> ph_type,
         policyholder_norm |-> ph_norm,
         policyholder_phone |-> strip(a.policyholder_phone),
         primary_role |-> pr_role]

\* the column values written by the INSERT and by the UPDATE
ContractColumns(a) ==
    LET prem_int   == _norm_premium(a.premium)
        start_norm == _norm_date(a.start_date)
        end_norm   == _norm_date(a.end_date)
        pol_norm   == _norm_policy_no(a.policy_no)
        ph         == PolicyholderFields(a)
    IN  [company |-> a.company, product_name |-> a.product_name,
         policy_no |-> a.policy_no, policy_no_norm |-> pol_norm,
         premium |-> prem_int, status |-> a.status,
         start_date |-> start_norm, end_date |-> end_norm,
         coverage_summary |-> a.coverage_summary,
         insured_name |-> a.insured_name, insured_phone |-> a.insured_phone,
         insured_birth |-> a.insured_birth, insured_gender |-> a.insured_gender,
         policyholder_name |-> ph.policyholder_name,
         policyholder_type |-> ph.policyholder_type,
         policyholder_norm |-> ph.policyholder_norm,
         policyholder_phone |-> ph.policyholder_phone,
         primary_role |-> ph.primary_role,
         stable_hash |-> _contract_stable_hash(a.customer_id, a.company,
                             a.product_name, start_norm, prem_int,
                             a.insured_birth, a.insured_name, a.insured_gender),
         key_hash |-> _contract_key_hash(a.customer_id, a.company, pol_norm,
                             a.product_name, start_norm, prem_int,
                             a.insured_birth, a.insured_name),
         content_hash |-> _contract_content_hash(a.customer_id, a.company,
                             a.product_name, pol_norm, prem_int, a.status,
                             start_norm, end_norm, a.insured_name,
                             a.insured_phone, a.insured_birth,
                             a.insured_gender, a.coverage_summary)]

ContractRow(id, customer_id, cols) ==
    [id |-> id, customer_id |-> customer_id] @@ cols

\* a writer that never looks for the row it may already have stored
add_contract_insert_only(custs, conts, next, a) ==
    [res |-> "insert",
     contracts |-> conts \cup {ContractRow(next, a.customer_id, ContractColumns(a))},
     next |-> next + 1, id |-> next]

\* a writer that rewrites the matched row also when its content is the same
add_contract_refresh_same(custs, conts, next, a) ==
    Only({
    LET unchanged(res) == [res |-> res, contracts |-> conts, next |-> next, id |-> NoId]
        by_key == {c \in conts : c.key_hash = cols.key_hash}
        m1 == IF by_key # {} THEN ById(by_key)[1].id ELSE NoId
        m2 == IF m1 # NoId THEN m1
              ELSE PolicyMatch(conts, a.customer_id, cols.policy_no_norm, cols.content_hash)
        sm == StableMatch(conts, a.customer_id, cols.stable_hash,
                          cols.policy_no_norm, cols.content_hash)
        match_id == IF m2 # NoId THEN m2 ELSE sm.id
    IN  IF m2 = NoId /\ sm.ambig THEN unchanged("ambig")
        ELSE IF match_id # NoId
        THEN LET old == RowOf(conts, match_id) IN
             IF old.content_hash = cols.content_hash
             THEN [res |-> "same",
                   contracts |-> (conts \ {old})
                                 \cup {ContractRow(old.id, old.customer_id, cols)},
                   next |-> next, id |-> match_id]
             ELSE IF \E c \in conts : c.id # match_id /\ c.key_hash = cols.key_hash
                  \* UNIQUE(key_hash) fails; the fallback UPDATE binds 16 values
                  \* to 21 placeholders, the error is caught by the outer handler
                  THEN unchanged("fail")
             ELSE [res |-> "update",
                   contracts |-> (conts \ {old})
                                 \cup {ContractRow(old.id, old.customer_id, cols)},
                   next |-> next, id |-> match_id]
        ELSE IF a.customer_id \notin Ids(custs)
             \* FOREIGN KEY / NOT NULL on customer_id: IntegrityError, and the
             \* handler finds no row with this key_hash
             THEN unchanged("fail")
        ELSE [res |-> "insert",
              contracts |-> conts \cup {ContractRow(next, a.customer_id, cols)},
              next |-> next + 1, id |-> next]
    : cols \in {ContractColumns(a)} })

\* a writer whose UPDATE leaves the stored content_hash and stable_hash
add_contract_stale_hashes(custs, conts, next, a) ==
    Only({
    LET unchanged(res) == [res |-> res, contracts |-> conts, next |-> next, id |-> NoId]
        by_key == {c \in conts : c.key_hash = cols.key_hash}
        m1 == IF by_key # {} THEN ById(by_key)[1].id ELSE NoId
        m2 == IF m1 # NoId THEN m1
              ELSE PolicyMatch(conts, a.customer_id, cols.policy_no_norm, cols.content_hash)
        sm == StableMatch(conts, a.customer_id, cols.stable_hash,
                          cols.policy_no_norm, cols.content_hash)
        match_id == IF m2 # NoId THEN m2 ELSE sm.id
    IN  IF m2 = NoId /\ sm.ambig THEN unchanged("ambig")
        ELSE IF match_id # NoId
        THEN LET old == RowOf(conts, match_id) IN
             IF old.content_hash = cols.content_hash
             THEN [res |-> "same", contracts |-> conts, next |-> next, id |-> match_id]
             ELSE IF \E c \in conts : c.id # match_id /\ c.key_hash = cols.key_hash
                  \* UNIQUE(key_hash) fails; the fallback UPDATE binds 16 values
                  \* to 21 placeholders, the error is caught by the outer handler
                  THEN unchanged("fail")
             ELSE [res |-> "update",
                   contracts |-> (conts \ {old})
                                 \cup {ContractRow(old.id, old.customer_id,
                                           [cols EXCEPT !.content_hash = old.content_hash,
                                                        !.stable_hash = old.stable_hash])},
                   next |-> next, id |-> match_id]
        ELSE IF a.customer_id \notin Ids(custs)
             \* FOREIGN KEY / NOT NULL on customer_id: IntegrityError, and the
             \* handler finds no row with this key_hash
             THEN unchanged("fail")
        ELSE [res |-> "insert",
              contracts |-> conts \cup {ContractRow(next, a.customer_id, cols)},
              next |-> next + 1, id |-> next]
    : cols \in {ContractColumns(a)} })

add_contract(custs, conts, next, a) ==
    Only({
    LET unchanged(res) == [res |-> res, contracts |-> conts, next |-> next, id |-> NoId]
        by_key == {c \in conts : c.key_hash = cols.key_hash}
        m1 == IF by_key # {} THEN ById(by_key)[1].id ELSE NoId
        m2 == IF m1 # NoId THEN m1
              ELSE PolicyMatch(conts, a.customer_id, cols.policy_no_norm, cols.content_hash)
        sm == StableMatch(conts, a.customer_id, cols.stable_hash,
                          cols.policy_no_norm, cols.content_hash)
        match_id == IF m2 # NoId THEN m2 ELSE sm.id
    IN  IF m2 = NoId /\ sm.ambig THEN unchanged("ambig")
        ELSE IF match_id # NoId
        THEN LET old == RowOf(conts, match_id) IN
             IF old.content_hash = cols.content_hash
             THEN [res |-> "same", contracts |-> conts, next |-> next, id |-> match_id]
             ELSE IF \E c \in conts : c.id # match_id /\ c.key_hash = cols.key_hash
                  \* UNIQUE(key_hash) fails; the fallback UPDATE binds 16 values
                  \* to 21 placeholders, the error is caught by the outer handler
                  THEN unchanged("fail")
             ELSE [res |-> "update",
                   contracts |-> (conts \ {old})
                                 \cup {ContractRow(old.id, old.customer_id, cols)},
                   next |-> next, id |-> match_id]
        ELSE IF a.customer_id \notin Ids(custs)
             \* FOREIGN KEY / NOT NULL on customer_id: IntegrityError, and the
             \* handler finds no row with this key_hash
             THEN unchanged("fail")
        ELSE [res |-> "insert",
              contracts |-> conts \cup {ContractRow(next, a.customer_id, cols)},
              next |-> next + 1, id |-> next]
    : cols \in {ContractColumns(a)} })

(***************************************************************************)
(* Customers (queries.py).  The columns address, source and memo are       *)
(* written once and never read by the engine; they are left out.           *)
(***************************************************************************)
EmptyJson == <<"{}">>

\* SELECT id FROM customers WHERE phone_norm = ? LIMIT 1
FirstByPhoneNorm(custs, phone_norm) ==
    LET rows == ById({c \in custs : c.phone_norm = phone_norm})
    IN  IF rows = <<>> THEN NoId ELSE rows[1].id

Keep(new, old) == IF new # <<>> THEN new ELSE old

\* an upsert whose UPDATE writes the incoming fields as they are
upsert_customer_identity_overwrite(custs, next, a) ==
    LET name == strip(SelectSeq(a.name, LAMBDA c : c # " "))
        phone_norm == normalize_phone(a.phone)
        cid == FirstByPhoneNorm(custs, phone_norm)
    IN  IF name = <<>> \/ a.phone = <<>>
        THEN [ok |-> FALSE, msg |-> "required", cid |-> NoId,
              customers |-> custs, next |-> next]
        ELSE IF cid # NoId
        THEN LET old == RowOf(custs, cid)
                 new == [old EXCEPT !.birth_date = a.birth_date, !.gender = a.gender,
                                    !.region = a.region, !.email = a.email,
                                    !.custom_data = a.custom_data]
             IN  [ok |-> TRUE, msg |-> "Update", cid |-> cid,
                  customers |-> (custs \ {old}) \cup {new}, next |-> next]
        ELSE [ok |-> TRUE, msg |-> "Insert", cid |-> next,
              customers |-> custs \cup
                  {[id |-> next, name |-> name, phone |-> a.phone,
                    phone_norm |-> phone_norm,
                    match_key |-> IF a.match_key # <<>> THEN a.match_key
                                  ELSE make_match_key(name, phone_last4(phone_norm)),
                    birth_date |-> a.birth_date, gender |-> a.gender,
                    region |-> a.region, email |-> a.email,
                    custom_data |-> a.custom_data]},
              next |-> next + 1]

\* an upsert that inserts without looking the phone up
upsert_customer_identity_blind(custs, next, a) ==
    LET name == strip(SelectSeq(a.name, LAMBDA c : c # " "))
        phone_norm == normalize_phone(a.phone)
        match_key == IF a.match_key # <<>> THEN a.match_key
                     ELSE make_match_key(name, phone_last4(phone_norm))
    IN  IF name = <<>> \/ a.phone = <<>>
        THEN [ok |-> FALSE, msg |-> "required", cid |-> NoId,
              customers |-> custs, next |-> next]
        ELSE [ok |-> TRUE, msg |-> "Insert", cid |-> next,
              customers |-> custs \cup
                  {[id |-> next, name |-> name, phone |-> a.phone,
                    phone_norm |-> phone_norm, match_key |-> match_key,
                    birth_date |-> a.birth_date, gender |-> a.gender,
                    region |-> a.region, email |-> a.email,
                    custom_data |-> a.custom_data]},
              next |-> next + 1]

upsert_customer_identity(custs, next, a) ==
    LET name == strip(SelectSeq(a.name, LAMBDA c : c # " "))
        phone_norm == normalize_phone(a.phone)
        match_key == IF a.match_key # <<>> THEN a.match_key
                     ELSE make_match_key(name, phone_last4(phone_norm))
        cid == FirstByPhoneNorm(custs, phone_norm)
    IN  IF name = <<>> \/ a.phone = <<>>
        THEN [ok |-> FALSE, msg |-> "required", cid |-> NoId,
              customers |-> custs, next |-> next]
        ELSE IF cid # NoId
        THEN LET old == RowOf(custs, cid)
                 new == [old EXCEPT !.birth_date = Keep(a.birth_date, @),
                                    !.gender = Keep(a.gender, @),
                                    !.region = Keep(a.region, @),
                                    !.email = Keep(a.email, @),
                                    !.custom_data = Keep(a.custom_data, @)]
             IN  [ok |-> TRUE, msg |-> "Update", cid |-> cid,
                  customers |-> (custs \ {old}) \cup {new}, next |-> next]
        ELSE [ok |-> TRUE, msg |-> "Insert", cid |-> next,
              customers |-> custs \cup
                  {[id |-> next, name |-> name, phone |-> a.phone,
                    phone_norm |-> phone_norm, match_key |-> match_key,
                    birth_date |-> a.birth_date, gender |-> a.gender,
                    region |-> a.region, email |-> a.email,
                    custom_data |-> a.custom_data]},
              next |-> next + 1]

\* always inserts; custom_data is json.dumps of a dict, "{}" for anything else
create_customer_direct(custs, next, a) ==
    LET nm_ == strip(a.name)
        ph == strip(a.phone)
    IN  [ok |-> TRUE, cid |-> next,
         customers |-> custs \cup
             {[id |-> next, name |-> nm_, phone |-> ph,
               phone_norm |-> normalize_phone(ph),
               match_key |-> make_match_key(nm_, phone_last4(ph)),
               birth_date |-> strip(a.birth_date), gender |-> strip(a.gender),
               region |-> strip(a.region), email |-> strip(a.email),
               custom_data |-> EmptyJson]},
         next |-> next + 1]

\* the customer edit form: rewrites the identity columns of one row
update_customer_direct(custs, cid, name, phone, birth_date, gender, region, email) ==
    IF cid \notin Ids(custs) THEN custs
    ELSE LET old == RowOf(custs, cid)
             clean_name == strip(SelectSeq(name, LAMBDA c : c # " "))
             phone_norm == normalize_phone(phone)
         IN  (custs \ {old}) \cup
             {[old EXCEPT !.name = clean_name, !.phone = phone,
                          !.phone_norm = phone_norm,
                          !.birth_date = birth_date, !.gender = gender,
                          !.region = region, !.email = email,
                          !.match_key = make_match_key(clean_name, phone_last4(phone_norm))]}

\* the delete of one customer without the delete of its contracts
delete_customer_keep_contracts(custs, conts, cid) ==
    [customers |-> {c \in custs : c.id # cid}, contracts |-> conts]

\* delete_customer: the customer's contracts, then the customer, one commit
delete_customer(custs, conts, cid) ==
    [customers |-> {c \in custs : c.id # cid},
     contracts |-> {c \in conts : c.customer_id # cid}]

(***************************************************************************)
(* smart_import.py: analysis.  Status texts: NEW, UPDATE, SAME, HOLD and   *)
(* FAIL stand for the five Korean status words; reasons are named by a     *)
(* token each.  A row's "financial" is <<>> (absent) or <<record>>.        *)
(***************************************************************************)
normalize_name(name) == strip(remove_ws(name))

_phone_last4_from_raw(phone_raw) ==
    LET d == digits_only(strip(phone_raw)) IN IF Len(d) >= 4 THEN last_n(d, 4) ELSE <<>>

IdSeq(rows) == [i \in 1..Len(rows) |-> rows[i].id]

_fetch_customers_by_phone_norm(custs, phone_norm) ==
    IdSeq(Limit({c \in custs : c.phone_norm = phone_norm}, 10))

_fetch_customers_by_match_key(custs, match_key) ==
    IdSeq(Limit({c \in custs : c.match_key = match_key}, 20))

\* a lookup by name and birth date that compares an empty birth date too
_fetch_customers_by_name_birth_strict(custs, name_norm, birth_date) ==
    IdSeq(Limit({c \in custs : SelectSeq(c.name, LAMBDA x : x # " ") = name_norm
                                /\ c.birth_date = birth_date}, 20))

_fetch_customers_by_name_birth(custs, name_norm, birth_date) ==
    IF birth_date # <<>>
    THEN IdSeq(Limit({c \in custs : SelectSeq(c.name, LAMBDA x : x # " ") = name_norm
                                    /\ c.birth_date = birth_date}, 20))
    ELSE IdSeq(Limit({c \in custs : SelectSeq(c.name, LAMBDA x : x # " ") = name_norm}, 20))

_fetch_customers_by_name_last4(custs, name_norm, last4) ==
    IdSeq(Limit({c \in custs : SelectSeq(c.name, LAMBDA x : x # " ") = name_norm
                               /\ last_n(c.phone_norm, 4) = last4}, 20))

\* _preview_contract_action: HOLD when the policy number is on another
\* customer; otherwise the call of _contract_key_hash with the keyword
\* policy_no_norm (not a parameter of that function) raises TypeError
_preview_contract_action(conts, customer_id, fin) ==
    LET policy_no_norm == _norm_policy_no(strip(fin.policy_no))
        rows_global == Limit({c \in conts : c.policy_no_norm = policy_no_norm}, 10)
        other == SelectSeq(rows_global, LAMBDA r : r.customer_id # customer_id)
    IN  IF policy_no_norm # <<>> /\ other # <<>>
        THEN [raised |-> FALSE, status |-> "HOLD", reason |-> "POLICY_ON_OTHER_CUSTOMER"]
        ELSE [raised |-> TRUE, status |-> "", reason |-> ""]

\* the role decision that treats every policyholder as a person
PrimaryRole_person_only(ph_cmp, in_cmp, policyholder_type) == "POLICYHOLDER"

\* which party the customer record follows (lines 356-361)
PrimaryRole(ph_cmp, in_cmp, policyholder_type) ==
    IF ph_cmp # <<>> /\ in_cmp # <<>> /\ ph_cmp = in_cmp
    THEN "POLICYHOLDER"
    ELSE IF policyholder_type = "CORP" THEN "INSURED"
    ELSE "POLICYHOLDER"

\* the identity fields after the policyholder / insured routing (lines 340-380)
RouteIdentity(row) ==
    LET fin == row.financial
        policyholder_name_raw == strip(row.name)
        policyholder_phone_raw == strip(row.phone)
        policyholder_type == IF _is_corporate_name(policyholder_name_raw)
                             THEN "CORP" ELSE "PERSON"
        insured_name_raw == IF fin # <<>> THEN strip(fin[1].insured_name) ELSE <<>>
        insured_phone_raw == IF fin # <<>> THEN strip(fin[1].insured_phone) ELSE <<>>
        insured_birth_raw == IF fin # <<>> THEN strip(fin[1].insured_birth) ELSE <<>>
        insured_gender_raw == IF fin # <<>> THEN strip(fin[1].insured_gender) ELSE <<>>
        ph_cmp == SelectSeq(policyholder_name_raw, LAMBDA c : c # " ")
        in_cmp == SelectSeq(insured_name_raw, LAMBDA c : c # " ")
        primary_role == PrimaryRole(ph_cmp, in_cmp, policyholder_type)
        use_insured == primary_role = "INSURED" /\ insured_name_raw # <<>>
    IN  [name_raw |-> IF use_insured THEN insured_name_raw ELSE row.name,
         phone_raw |-> IF use_insured
                       THEN OrElse(insured_phone_raw, policyholder_phone_raw)
                       ELSE row.phone,
         birth_date |-> IF use_insured
                        THEN OrElse(insured_birth_raw, strip(row.birth_date))
                        ELSE strip(row.birth_date),
         gender |-> IF use_insured
                    THEN OrElse(insured_gender_raw, strip(row.gender))
                    ELSE strip(row.gender),
         policyholder_name |-> policyholder_name_raw,
         policyholder_phone |-> policyholder_phone_raw,
         policyholder_type |-> policyholder_type,
         policyholder_norm |-> _norm_org_name(policyholder_name_raw),
         primary_role |-> primary_role]

\* the name test with the comparison turned round
NameMismatch_inverted(existing_name_norm, name) ==
    existing_name_norm # <<>> /\ name # <<>> /\ existing_name_norm = name

\* line 399: the stored and the incoming name are given and differ
NameMismatch(existing_name_norm, name) ==
    existing_name_norm # <<>> /\ name # <<>> /\ existing_name_norm # name

\* a preview where a phone nobody has always makes a new customer
MatchCustomer_new_unchecked(custs, name, phone_norm, last4, birth_date, match_key0) ==
    LET res(st, id, cands, why, mk) ==
            [status |-> st, id |-> id, candidates |-> cands, reason |-> why,
             match_key |-> mk]
    IN
    IF name # <<>> /\ phone_norm # <<>>
    THEN LET by_phone == _fetch_customers_by_phone_norm(custs, phone_norm) IN
         IF Len(by_phone) = 1
         THEN LET existing_name_norm == normalize_name(RowOf(custs, by_phone[1]).name) IN
              IF NameMismatch(existing_name_norm, name)
              THEN res("HOLD", NoId, by_phone, "PHONE_NAME_MISMATCH", match_key0)
              ELSE res("UPDATE", by_phone[1], <<>>, "PHONE_MATCH", match_key0)
         ELSE IF Len(by_phone) > 1
         THEN res("HOLD", NoId, by_phone, "PHONE_DUP", match_key0)
         ELSE res("NEW", NoId, <<>>, "NEW_CUSTOMER", match_key0)
    ELSE IF name # <<>>
    THEN LET mk == IF match_key0 = <<>> /\ last4 # <<>>
                   THEN make_match_key(name, last4) ELSE match_key0
             by_key == IF mk # <<>> THEN _fetch_customers_by_match_key(custs, mk) ELSE <<>>
             by_last4 == IF last4 # <<>>
                         THEN _fetch_customers_by_name_last4(custs, name, last4) ELSE <<>>
             by_name == _fetch_customers_by_name_birth(custs, name, <<>>)
         IN  IF by_key # <<>> THEN res("HOLD", NoId, by_key, "MATCH_KEY_CANDIDATES", mk)
             ELSE IF by_last4 # <<>>
             THEN res("HOLD", NoId, by_last4, "NAME_LAST4_CANDIDATES", mk)
             ELSE IF by_name # <<>>
             THEN res("HOLD", NoId, by_name, "SAME_NAME_CANDIDATES", mk)
             ELSE res("FAIL", NoId, <<>>, "PHONE_MISSING", mk)
    ELSE res("FAIL", NoId, <<>>, "NAME_MISSING", match_key0)

\* customer matching preview of one row (lines 386-448)
MatchCustomer(custs, name, phone_norm, last4, birth_date, match_key0) ==
    LET res(st, id, cands, why, mk) ==
            [status |-> st, id |-> id, candidates |-> cands, reason |-> why,
             match_key |-> mk]
    IN
    IF name # <<>> /\ phone_norm # <<>>
    THEN LET by_phone == _fetch_customers_by_phone_norm(custs, phone_norm) IN
         IF Len(by_phone) = 1
         THEN LET existing_name_norm == normalize_name(RowOf(custs, by_phone[1]).name) IN
              IF NameMismatch(existing_name_norm, name)
              THEN res("HOLD", NoId, by_phone, "PHONE_NAME_MISMATCH", match_key0)
              ELSE res("UPDATE", by_phone[1], <<>>, "PHONE_MATCH", match_key0)
         ELSE IF Len(by_phone) > 1
         THEN res("HOLD", NoId, by_phone, "PHONE_DUP", match_key0)
         ELSE LET by_name_birth == _fetch_customers_by_name_birth(custs, name, birth_date) IN
              IF by_name_birth # <<>>
              THEN res("HOLD", NoId, by_name_birth, "NAME_BIRTH_EXISTS", match_key0)
              ELSE res("NEW", NoId, <<>>, "NEW_CUSTOMER", match_key0)
    ELSE IF name # <<>>
    THEN LET mk == IF match_key0 = <<>> /\ last4 # <<>>
                   THEN make_match_key(name, last4) ELSE match_key0
             by_key == IF mk # <<>> THEN _fetch_customers_by_match_key(custs, mk) ELSE <<>>
             by_last4 == IF last4 # <<>>
                         THEN _fetch_customers_by_name_last4(custs, name, last4) ELSE <<>>
             by_name == _fetch_customers_by_name_birth(custs, name, <<>>)
         IN  IF by_key # <<>> THEN res("HOLD", NoId, by_key, "MATCH_KEY_CANDIDATES", mk)
             ELSE IF by_last4 # <<>>
             THEN res("HOLD", NoId, by_last4, "NAME_LAST4_CANDIDATES", mk)
             ELSE IF by_name # <<>>
             THEN res("HOLD", NoId, by_name, "SAME_NAME_CANDIDATES", mk)
             ELSE res("FAIL", NoId, <<>>, "PHONE_MISSING", mk)
    ELSE res("FAIL", NoId, <<>>, "NAME_MISSING", match_key0)

\* contract matching preview of one row (lines 456-489)
PreviewContract(conts, row, cust) ==
    LET fin == row.financial
        res(raised, st, why) == [raised |-> raised, status |-> st, reason |-> why]
    IN
    IF fin = <<>> THEN res(FALSE, "", "")
    ELSE IF cust.status \in {"UPDATE", "NEW"}
    THEN IF cust.id = NoId
         THEN LET policy_no_norm == _norm_policy_no(strip(fin[1].policy_no)) IN
              IF policy_no_norm # <<>>
              THEN IF \E c \in conts : c.policy_no_norm = policy_no_norm
                   THEN res(FALSE, "HOLD", "POLICY_ON_OTHER_CUSTOMER")
                   ELSE res(FALSE, "NEW", "NEW_WITH_CUSTOMER")
              ELSE res(FALSE, "NEW", "NEW_WITHOUT_POLICY_NO")
         ELSE LET p == _preview_contract_action(conts, cust.id, fin[1])
              IN  res(p.raised, p.status, p.reason)
    ELSE res(FALSE, "HOLD", "CUSTOMER_NOT_RESOLVED")

RowStatus(cust_status, cont_status) ==
    IF cust_status = "FAIL" \/ cont_status = "FAIL" THEN "FAIL"
    ELSE IF cust_status = "HOLD" \/ cont_status = "HOLD" THEN "HOLD"
    ELSE IF cont_status # "" THEN cont_status ELSE cust_status

\* one pass of the main loop: the output row, or raised = TRUE
AnalyzeRow(custs, conts, row, seq) ==
    LET id_ == RouteIdentity(row)
        name == normalize_name(id_.name_raw)
        phone == strip(id_.phone_raw)
        phone_norm == IF phone # <<>> THEN normalize_phone(phone) ELSE <<>>
        last4 == _phone_last4_from_raw(phone)
        cust == MatchCustomer(custs, name, phone_norm, last4, id_.birth_date,
                              strip(row.match_key))
        cont == PreviewContract(conts, row, cust)
    IN  [raised |-> cont.raised,
         row |-> [seq |-> seq, name |-> name, phone |-> phone,
                  birth_date |-> id_.birth_date, gender |-> id_.gender,
                  region |-> strip(row.region), email |-> strip(row.email),
                  custom_data |-> row.custom_data, match_key |-> cust.match_key,
                  customer_status |-> cust.status, customer_id |-> cust.id,
                  customer_reason |-> cust.reason,
                  customer_candidates |-> cust.candidates,
                  contract_status |-> cont.status, contract_reason |-> cont.reason,
                  row_status |-> RowStatus(cust.status, cont.status),
                  financial |-> row.financial,
                  policyholder_name |-> id_.policyholder_name,
                  policyholder_phone |-> id_.policyholder_phone,
                  policyholder_type |-> id_.policyholder_type,
                  policyholder_norm |-> id_.policyholder_norm,
                  primary_role |-> id_.primary_role]]

\* phones that carry more than one name within the file (lines 540-547)
ConflictPhones(rows_out) ==
    LET named == {i \in 1..Len(rows_out) :
                      normalize_phone(rows_out[i].phone) # <<>>
                      /\ normalize_name(rows_out[i].name) # <<>>}
    IN  {normalize_phone(rows_out[i].phone) : i \in
            {i \in named : \E j \in named :
                /\ normalize_phone(rows_out[j].phone) = normalize_phone(rows_out[i].phone)
                /\ normalize_name(rows_out[j].name) # normalize_name(rows_out[i].name)}}

\* an escalation that leaves the rows classified NEW as they are
Escalate_skip_new(r, conflict_phones) ==
    LET pn == normalize_phone(r.phone) IN
    IF pn = <<>> \/ pn \notin conflict_phones \/ r.customer_status = "NEW" THEN r
    ELSE [r EXCEPT !.customer_status = IF @ # "FAIL" THEN "HOLD" ELSE @,
                   !.customer_reason = IF r.customer_status # "FAIL"
                                       THEN "FILE_PHONE_CONFLICT" ELSE @,
                   !.row_status = IF @ # "FAIL" THEN "HOLD" ELSE @,
                   !.contract_status = IF @ \notin {"FAIL", "HOLD"} THEN "HOLD" ELSE @,
                   !.contract_reason = IF r.contract_status \notin {"FAIL", "HOLD"}
                                       THEN "FILE_PHONE_CONFLICT_CONTRACT" ELSE @]

\* the escalation of one row (lines 549-565)
Escalate(r, conflict_phones) ==
    LET pn == normalize_phone(r.phone) IN
    IF pn = <<>> \/ pn \notin conflict_phones THEN r
    ELSE LET r1 == IF r.customer_status # "FAIL"
                   THEN [r EXCEPT !.customer_status = "HOLD",
                                  !.customer_reason = "FILE_PHONE_CONFLICT"]
                   ELSE r
             r2 == IF r1.row_status # "FAIL"
                   THEN [r1 EXCEPT !.row_status = "HOLD"] ELSE r1
         IN  IF r2.contract_status \notin {"FAIL", "HOLD"}
             THEN [r2 EXCEPT !.contract_status = "HOLD",
                             !.contract_reason = "FILE_PHONE_CONFLICT_CONTRACT"]
             ELSE r2

\* the main loop over the file's rows
RECURSIVE AnalyzeRows(_, _, _, _)
AnalyzeRows(custs, conts, batch, seq) ==
    IF seq > Len(batch) THEN <<>>
    ELSE <<AnalyzeRow(custs, conts, batch[seq], seq)>>
         \o AnalyzeRows(custs, conts, batch, seq + 1)

\* the post-processing of the loop's output (lines 540-565); an exception in
\* the loop leaves the function without a result
FileConflicts(out) ==
    LET rows_out == [i \in 1..Len(out) |-> out[i].row] IN
    IF \E i \in 1..Len(out) : out[i].raised
    THEN [ok |-> FALSE, rows |-> <<>>]
    ELSE [ok |-> TRUE,
          rows |-> [i \in 1..Len(out) |->
                       Escalate(rows_out[i], ConflictPhones(rows_out))]]

analyze_processed_df(custs, conts, batch) ==
    CHOOSE res \in {FileConflicts(out) : out \in {AnalyzeRows(custs, conts, batch, 1)}} : TRUE

(***************************************************************************)
(* utils.is_name_match                                                     *)
(***************************************************************************)
Wildcards == {"*", "?", "X", "x"}

RECURSIVE name_match_loop(_, _, _)
name_match_loop(r, m, i) ==
    IF i > Len(r) \/ i > Len(m) THEN TRUE
    ELSE IF m[i] \in Wildcards THEN name_match_loop(r, m, i + 1)
    ELSE IF r[i] # m[i] THEN FALSE
    ELSE name_match_loop(r, m, i + 1)

\* the same verifier without the length test (zip stops at the shorter text)
is_name_match_nolen(real_name, masked_input) ==
    IF real_name = <<>> \/ masked_input = <<>> THEN FALSE
    ELSE name_match_loop(strip(real_name), strip(masked_input), 1)

is_name_match(real_name, masked_input) ==
    IF real_name = <<>> \/ masked_input = <<>> THEN FALSE
    ELSE LET r_clean == strip(real_name)
             m_clean == strip(masked_input)
         IN  IF Len(r_clean) # Len(m_clean) THEN FALSE
             ELSE name_match_loop(r_clean, m_clean, 1)

(***************************************************************************)
(* queries.bulk_import_masked_contracts, one row of the sheet              *)
(* masked_name, phone: the picked cells; a: the contract cells as          *)
(* add_contract arguments.  Result: what the row was counted as, the       *)
(* customer it was attached to, and the contracts table after.             *)
(***************************************************************************)
\* lines 627-684: the verifier is called as is_name_match(masked_name,
\* real_name), its parameters are (real_name, masked_input)
MaskedRow(custs, conts, next, masked_name, phone, a) ==
    LET mk == make_match_key(masked_name, phone_last4(phone))
        candidates == {c \in custs : c.match_key = mk}
        valid_candidates == {c \in candidates : is_name_match(masked_name, c.name)}
        skip(res) == [res |-> res, target |-> NoId, contracts |-> conts, next |-> next]
    IN  IF mk = <<>> \/ candidates = {} THEN skip("failed")
        ELSE IF Cardinality(valid_candidates) > 1 THEN skip("ambig")
        ELSE IF valid_candidates = {} THEN skip("failed")
        ELSE Only({ [res |-> r.res, target |-> target_id, contracts |-> r.contracts,
                     next |-> r.next] :
                    r \in {add_contract(custs, conts, next,
                              [a EXCEPT !.customer_id =
                                  (CHOOSE c \in valid_candidates : TRUE).id])},
                    target_id \in {(CHOOSE c \in valid_candidates : TRUE).id} })

(***************************************************************************)
(* Hold store (queries.py).  The upload_holds table is used by the code    *)
(* with UNIQUE(file_hash, row_no); raw_json keeps the analysed row and     *)
(* row_payload_json is a projection of the same row written by the same    *)
(* statement, so one column "raw" stands for both.                         *)
(***************************************************************************)
RECURSIVE Desc(_)
Desc(ids) ==
    IF ids = {} THEN <<>>
    ELSE LET m == CHOOSE x \in ids : \A y \in ids : y <= x
         IN  <<m>> \o Desc(ids \ {m})

\* ids of the candidate customers, best score first, then highest id first
find_customer_candidates(custs, name, phone, birth_date, limit) ==
    LET nm_ == strip(name)
        ph == strip(phone)
        pn == normalize_phone(ph)
        mk == make_match_key(nm_, phone_last4(ph))
        bd == strip(birth_date)
        s100 == IF pn # <<>> THEN {c.id : c \in {x \in custs : x.phone_norm = pn}} ELSE {}
        s70 == IF mk # <<>>
               THEN {c.id : c \in {x \in custs :
                        /\ x.match_key = mk
                        /\ (nm_ = <<>> \/ is_name_match(nm_, x.name))}} \ s100
               ELSE {}
        s80 == IF nm_ # <<>> /\ bd # <<>>
               THEN {c.id : c \in {x \in custs :
                        /\ SelectSeq(x.name, LAMBDA ch : ch # " ")
                             = SelectSeq(nm_, LAMBDA ch : ch # " ")
                        /\ x.birth_date = bd}} \ (s100 \cup s70)
               ELSE {}
    IN  first_n(Desc(s100) \o Desc(s80) \o Desc(s70), limit)

\* the keywords that _reason_code_from_row looks for, per reason token
_reason_code_from_row(r) ==
    IF r.customer_reason = "FILE_PHONE_CONFLICT" THEN "PHONE_NAME_CONFLICT_FILE"
    ELSE IF r.customer_reason = "PHONE_NAME_MISMATCH" THEN "PHONE_NAME_MISMATCH_DB"
    ELSE IF r.customer_reason = "PHONE_DUP" THEN "PHONE_DUP_DB"
    ELSE IF r.contract_reason = "NEW_WITHOUT_POLICY_NO" THEN "REQUIRED_MISSING"
    ELSE "HOLD"

HoldAt(hs, file_hash, row_no) == {h \in hs : h.file_hash = file_hash /\ h.row_no = row_no}

\* the columns sync_upload_holds computes for a held row
SyncCols(custs, r) ==
    [reason_code |-> _reason_code_from_row(r),
     reason_msg |-> IF r.customer_reason # "" THEN r.customer_reason
                    ELSE IF r.contract_reason # "" THEN r.contract_reason
                    ELSE "HOLD",
     raw |-> r,
     normalized |-> [name_norm |-> SelectSeq(strip(r.name), LAMBDA c : c # " "),
                     phone_norm |-> normalize_phone(r.phone),
                     birth_date |-> strip(r.birth_date)],
     candidates |-> IF r.customer_candidates # <<>> THEN r.customer_candidates
                    ELSE find_customer_candidates(custs, r.name, r.phone,
                                                  r.birth_date, 20)]

\* INSERT of a new OPEN hold
SyncInsert(custs, st, file_hash, r) ==
    [holds |-> st.holds \cup
               {[id |-> st.next, file_hash |-> file_hash, row_no |-> r.seq,
                 status |-> "OPEN", corrected |-> <<>>] @@ SyncCols(custs, r)},
     next |-> st.next + 1]

\* UPDATE of an existing hold: COALESCE(status, 'OPEN'), corrected_json kept
SyncUpdate(custs, st, h, r) ==
    [holds |-> (st.holds \ {h}) \cup
               {[id |-> h.id, file_hash |-> h.file_hash, row_no |-> h.row_no,
                 status |-> IF h.status = "" THEN "OPEN" ELSE h.status,
                 corrected |-> h.corrected] @@ SyncCols(custs, r)},
     next |-> st.next]

\* the row step without the test for RESOLVED
SyncRow_overwrite(custs, st, file_hash, r) ==
    IF r.row_status # "HOLD" \/ r.seq <= 0 THEN st
    ELSE LET ex == HoldAt(st.holds, file_hash, r.seq) IN
         IF ex = {} THEN SyncInsert(custs, st, file_hash, r)
         ELSE SyncUpdate(custs, st, CHOOSE x \in ex : TRUE, r)

\* one row of sync_upload_holds; st = [holds, next]
SyncRow(custs, st, file_hash, r) ==
    IF r.row_status # "HOLD" \/ r.seq <= 0 THEN st
    ELSE LET ex == HoldAt(st.holds, file_hash, r.seq) IN
         IF ex = {} THEN SyncInsert(custs, st, file_hash, r)
         ELSE LET h == CHOOSE x \in ex : TRUE IN
              IF h.status = "RESOLVED" THEN st
              ELSE SyncUpdate(custs, st, h, r)

RECURSIVE SyncRows(_, _, _, _, _)
SyncRows(custs, st, file_hash, rows, i) ==
    IF i > Len(rows) THEN st
    ELSE SyncRows(custs, SyncRow(custs, st, file_hash, rows[i]), file_hash, rows, i + 1)

sync_upload_holds(custs, hs, next, file_hash, rows) ==
    SyncRows(custs, [holds |-> hs, next |-> next], file_hash, rows, 1)

\* the tables of the decision trail
AuditTables == {"hold_decisions", "approval_proofs", "audit_logs"}

\* insert_hold_decision, insert_approval_proof and audit_log for one hold
DecisionRecords(hold_id, decision) ==
    {[table |-> t, ref_table |-> "upload_holds", hold_id |-> hold_id,
      decision |-> decision] : t \in AuditTables}

\* audit_log: one audit_logs record for an event on a row of ref_table
AuditRecord(event_type, ref_table, ref_id) ==
    [table |-> "audit_logs", ref_table |-> ref_table, hold_id |-> ref_id,
     decision |-> event_type]

set_upload_hold_status_by_file_row(hs, file_hash, row_no, status) ==
    {IF h.file_hash = file_hash /\ h.row_no = row_no
     THEN [h EXCEPT !.status = status] ELSE h : h \in hs}

\* set_upload_hold_status: the status is committed, then audit_log is called
\* with five arguments (it takes four): TypeError, caught, answer not ok
set_upload_hold_status(hs, hold_id, status) ==
    [ok |-> FALSE,
     holds |-> {IF h.id = hold_id THEN [h EXCEPT !.status = status] ELSE h : h \in hs}]

(***************************************************************************)
(* smart_import.apply_import                                               *)
(* st: the tables while the loop runs, the per-row record of what was      *)
(* done, and raised = TRUE once an exception has left the function.        *)
(* p: the keyword arguments (file_hash = NoId when none is given).         *)
(***************************************************************************)
NoDecision == [mode |-> "none", customer_id |-> NoId]

FinArgs(cid, r) ==
    LET fin == r.financial[1] IN
    [customer_id |-> cid, company |-> fin.company, product_name |-> fin.product_name,
     policy_no |-> fin.policy_no, premium |-> fin.premium, status |-> fin.status,
     start_date |-> fin.start_date, end_date |-> fin.end_date,
     insured_name |-> fin.insured_name, insured_phone |-> fin.insured_phone,
     insured_birth |-> fin.insured_birth, insured_gender |-> fin.insured_gender,
     coverage_summary |-> fin.coverage_summary,
     policyholder_name |-> r.policyholder_name,
     policyholder_phone |-> r.policyholder_phone,
     policyholder_type |-> r.policyholder_type,
     policyholder_norm |-> r.policyholder_norm,
     primary_role |-> r.primary_role]

Done(st, r, cust, cid, stored_name, cont, written) ==
    [st EXCEPT !.out = Append(@, [seq |-> r.seq, name |-> r.name,
                                  cust |-> cust, cid |-> cid,
                                  stored_name |-> stored_name,
                                  cont |-> cont, written |-> written,
                                  records |-> st.rec]),
               !.rec = {}]

\* part 2 of the loop body: the contract of a row whose customer is cid
ApplyContract(r, st, p, cust, cid, stored_name) ==
    IF r.financial = <<>> THEN Done(st, r, cust, cid, stored_name, "none", <<>>)
    ELSE IF r.contract_status = "SAME" /\ ~p.apply_same
         THEN Done(st, r, cust, cid, stored_name, "none", <<>>)
    ELSE IF r.contract_status = "UPDATE" /\ ~p.apply_updates
         THEN Done(st, r, cust, cid, stored_name, "none", <<>>)
    ELSE IF r.contract_status = "HOLD" /\ ~p.allow_hold
         THEN Done(st, r, cust, cid, stored_name, "none", <<>>)
    ELSE IF cid = NoId THEN Done(st, r, cust, cid, stored_name, "fail", <<>>)
    ELSE Only({
         LET resolved == /\ p.file_hash # NoId /\ r.seq # 0
                         /\ r.customer_status = "HOLD"
                         /\ c.res \in {"insert", "update", "same"}
             st1 == [st EXCEPT !.contracts = c.contracts,
                               !.seqs.contract = c.next,
                               !.holds = IF resolved
                                         THEN set_upload_hold_status_by_file_row(
                                                  @, p.file_hash, r.seq, "RESOLVED")
                                         ELSE @,
                               !.rec = IF resolved
                                       THEN @ \cup {AuditRecord("HOLD_AUTO_RESOLVED_AFTER_APPLY",
                                                                "upload_holds", h.id) :
                                                       h \in HoldAt(st.holds, p.file_hash, r.seq)}
                                       ELSE @]
         IN  Done(st1, r, cust, cid, stored_name, c.res,
                  IF c.res \in {"insert", "update"}
                  THEN <<RowOf(c.contracts, c.id)>> ELSE <<>>)
         : c \in {add_contract(st.customers, st.contracts, st.seqs.contract,
                               FinArgs(cid, r))} })

UpsertArgs(r) ==
    [name |-> r.name, phone |-> r.phone, birth_date |-> r.birth_date,
     gender |-> r.gender, region |-> r.region, email |-> r.email,
     custom_data |-> r.custom_data, match_key |-> r.match_key]

\* a loop body that, with allow_hold, writes a held row without a decision
\* as if it were new
ApplyRow_forced_hold(r, st, p) ==
    LET dec == p.decisions[r.seq]
        mode == dec.mode
        chosen_cid == dec.customer_id
        mark(status) == IF p.file_hash # NoId /\ r.seq # 0
                        THEN set_upload_hold_status_by_file_row(
                                 st.holds, p.file_hash, r.seq, status)
                        ELSE st.holds
        record(decision) ==
            IF p.file_hash # NoId /\ r.seq # 0
            THEN UNION {DecisionRecords(h.id, decision) : h \in HoldAt(st.holds, p.file_hash, r.seq)}
            ELSE {}
        held == r.customer_status = "HOLD"
    IN
    IF held /\ (mode = "skip" \/ (mode = "none" /\ ~p.allow_hold))
    THEN Done([st EXCEPT !.holds = mark("SKIPPED"), !.rec = record("SKIP")],
              r, "skip", NoId, <<>>, "none", <<>>)
    ELSE IF held /\ mode = "use_existing" /\ chosen_cid # NoId
    THEN ApplyContract(r, [st EXCEPT !.holds = mark("OPEN"),
                                     !.rec = record("MAP_EXISTING")],
                       p, "chosen", chosen_cid, <<>>)
    ELSE IF held /\ mode = "create_new"
    THEN [st EXCEPT !.raised = TRUE]
    ELSE IF r.customer_status = "FAIL"
    THEN Done(st, r, "fail", NoId, <<>>, "none", <<>>)
    ELSE IF r.customer_status = "UPDATE" /\ ~p.apply_updates
    THEN Done(st, r, "skip", NoId, <<>>, "none", <<>>)
    ELSE Only({
         IF ~u.ok \/ u.cid = NoId
         THEN Done(st, r, "fail", NoId, <<>>, "none", <<>>)
         ELSE ApplyContract(r, [st EXCEPT !.customers = u.customers,
                                          !.seqs.customer = u.next],
                            p, u.msg, u.cid,
                            IF u.msg = "Update"
                            THEN <<RowOf(st.customers, u.cid).name>> ELSE <<>>)
         : u \in {upsert_customer_identity(st.customers, st.seqs.customer,
                                           UpsertArgs(r))} })

ApplyRow(r, st, p) ==
    LET dec == p.decisions[r.seq]
        mode == dec.mode
        chosen_cid == dec.customer_id
        mark(status) == IF p.file_hash # NoId /\ r.seq # 0
                        THEN set_upload_hold_status_by_file_row(
                                 st.holds, p.file_hash, r.seq, status)
                        ELSE st.holds
        record(decision) ==
            IF p.file_hash # NoId /\ r.seq # 0
            THEN UNION {DecisionRecords(h.id, decision) : h \in HoldAt(st.holds, p.file_hash, r.seq)}
            ELSE {}
    IN
    IF r.customer_status = "HOLD"
    THEN IF mode = "skip" \/ (mode = "none" /\ ~p.allow_hold)
         THEN Done([st EXCEPT !.holds = mark("SKIPPED"), !.rec = record("SKIP")],
                   r, "skip", NoId, <<>>, "none", <<>>)
         ELSE IF mode = "use_existing" /\ chosen_cid # NoId
         THEN ApplyContract(r, [st EXCEPT !.holds = mark("OPEN"),
                                          !.rec = record("MAP_EXISTING")],
                            p, "chosen", chosen_cid, <<>>)
         ELSE IF mode = "create_new"
         \* create_customer_direct is called with the keyword match_key, which
         \* it does not accept: TypeError, not caught (try ... finally only)
         THEN [st EXCEPT !.raised = TRUE]
         ELSE Done(st, r, "skip", NoId, <<>>, "none", <<>>)
    ELSE IF r.customer_status = "FAIL"
    THEN Done(st, r, "fail", NoId, <<>>, "none", <<>>)
    ELSE IF r.customer_status = "UPDATE" /\ ~p.apply_updates
    THEN Done(st, r, "skip", NoId, <<>>, "none", <<>>)
    ELSE Only({
         IF ~u.ok \/ u.cid = NoId
         THEN Done(st, r, "fail", NoId, <<>>, "none", <<>>)
         ELSE ApplyContract(r, [st EXCEPT !.customers = u.customers,
                                          !.seqs.customer = u.next],
                            p, u.msg, u.cid,
                            IF u.msg = "Update"
                            THEN <<RowOf(st.customers, u.cid).name>> ELSE <<>>)
         : u \in {upsert_customer_identity(st.customers, st.seqs.customer,
                                           UpsertArgs(r))} })

RECURSIVE ApplyRows(_, _, _, _)
ApplyRows(rows, i, st, p) ==
    IF i > Len(rows) \/ st.raised THEN st
    ELSE Only({ApplyRows(rows, i + 1, st1, p) : st1 \in {ApplyRow(rows[i], st, p)}})

apply_import(custs, conts, hs, sq, rows, p) ==
    ApplyRows(rows, 1,
              [customers |-> custs, contracts |-> conts, holds |-> hs, seqs |-> sq,
               out |-> <<>>, rec |-> {}, raised |-> FALSE], p)

\* the arguments apply_upload_hold_decision hands to add_contract: fin is
\* the stored financial sub-record, or {} when the row has none
PayloadArgs(cid, payload) ==
    LET none == [company |-> <<>>, product_name |-> <<>>, policy_no |-> <<>>,
                 premium |-> <<>>, status |-> <<>>, start_date |-> <<>>,
                 end_date |-> <<>>, insured_name |-> <<>>, insured_phone |-> <<>>,
                 insured_birth |-> <<>>, insured_gender |-> <<>>,
                 coverage_summary |-> <<>>]
        fin == IF payload.financial = <<>> THEN none ELSE payload.financial[1]
    IN  [customer_id |-> cid, company |-> fin.company,
         product_name |-> fin.product_name,
         policy_no |-> fin.policy_no, premium |-> fin.premium, status |-> fin.status,
         start_date |-> fin.start_date, end_date |-> fin.end_date,
         insured_name |-> fin.insured_name, insured_phone |-> fin.insured_phone,
         insured_birth |-> fin.insured_birth, insured_gender |-> fin.insured_gender,
         coverage_summary |-> fin.coverage_summary,
         policyholder_name |-> payload.policyholder_name,
         policyholder_phone |-> payload.policyholder_phone,
         policyholder_type |-> payload.policyholder_type,
         policyholder_norm |-> payload.policyholder_norm,
         primary_role |-> payload.primary_role]

(***************************************************************************)
(* queries.insert_customer_data: one upsert and one add_contract per row   *)
(***************************************************************************)
\* add_contract is called without the policyholder keywords
DataArgs(cid, row) ==
    LET fin == row.financial[1] IN
    [customer_id |-> cid, company |-> fin.company, product_name |-> fin.product_name,
     policy_no |-> fin.policy_no, premium |-> fin.premium, status |-> fin.status,
     start_date |-> fin.start_date, end_date |-> fin.end_date,
     insured_name |-> fin.insured_name, insured_phone |-> fin.insured_phone,
     insured_birth |-> fin.insured_birth, insured_gender |-> fin.insured_gender,
     coverage_summary |-> fin.coverage_summary,
     policyholder_name |-> <<>>, policyholder_phone |-> <<>>,
     policyholder_type |-> <<>>, policyholder_norm |-> <<>>, primary_role |-> ""]

DataRow(row, st) ==
    LET done(s, msg, cid, res) ==
            [s EXCEPT !.out = Append(@, [msg |-> msg, cid |-> cid, res |-> res])]
    IN
    IF row.name = <<>> \/ row.phone = <<>> THEN done(st, "fail", NoId, "none")
    ELSE Only({
         IF ~u.ok \/ u.cid = NoId THEN done(st, "fail", NoId, "none")
         ELSE IF row.financial = <<>>
         THEN done([st EXCEPT !.customers = u.customers, !.seqs.customer = u.next],
                   u.msg, u.cid, "none")
         ELSE Only({
              done([st EXCEPT !.customers = u.customers, !.seqs.customer = u.next,
                              !.contracts = c.contracts, !.seqs.contract = c.next],
                   u.msg, u.cid, c.res)
              : c \in {add_contract(u.customers, st.contracts, st.seqs.contract,
                                    DataArgs(u.cid, row))} })
         : u \in {upsert_customer_identity(st.customers, st.seqs.customer,
                      [name |-> row.name, phone |-> row.phone,
                       birth_date |-> row.birth_date, gender |-> row.gender,
                       region |-> row.region, email |-> row.email,
                       custom_data |-> row.custom_data, match_key |-> row.match_key])} })

RECURSIVE DataRows(_, _, _)
DataRows(rows, i, st) ==
    IF i > Len(rows) THEN st
    ELSE Only({DataRows(rows, i + 1, st1) : st1 \in {DataRow(rows[i], st)}})

insert_customer_data(custs, conts, sq, rows) ==
    DataRows(rows, 1, [customers |-> custs, contracts |-> conts, seqs |-> sq, out |-> <<>>])

(***************************************************************************)
(* queries.apply_upload_hold_decision                                      *)
(* corrected_given: the caller passes a dict of corrections.  The stored   *)
(* corrected_json is always empty: update_upload_hold_corrected raises     *)
(* NameError (normalize_birth is not defined) before it writes.            *)
(***************************************************************************)
apply_upload_hold_decision(custs, hs, sq, hold_id, dec, target, corrected_given) ==
    LET same(ok, raised) == [ok |-> ok, raised |-> raised, customers |-> custs,
                             holds |-> hs, seqs |-> sq, records |-> {}]
    IN
    IF hold_id \notin Ids(hs) THEN same(FALSE, FALSE)
    ELSE IF corrected_given THEN same(FALSE, TRUE)
    ELSE LET hold == RowOf(hs, hold_id)
             payload == hold.raw
         IN
         IF dec = "SKIP"
         THEN [ok |-> TRUE, raised |-> FALSE, customers |-> custs,
               holds |-> set_upload_hold_status_by_file_row(
                             hs, hold.file_hash, hold.row_no, "SKIPPED"),
               seqs |-> sq, records |-> DecisionRecords(hold_id, "SKIP")]
         ELSE IF dec = "MAP_EXISTING"
         THEN IF target = NoId THEN same(FALSE, FALSE)
              \* add_contract is called with the keyword insured_ssn, which it
              \* does not accept: TypeError leaves the function
              ELSE same(FALSE, TRUE)
         ELSE IF dec = "CREATE_NEW"
         THEN LET c == create_customer_direct(custs, sq.customer,
                           [name |-> strip(payload.name), phone |-> strip(payload.phone),
                            birth_date |-> strip(payload.birth_date),
                            gender |-> payload.gender, region |-> payload.region,
                            email |-> payload.email])
              \* the customer row is committed, then add_contract raises as above
              IN  [ok |-> FALSE, raised |-> TRUE, customers |-> c.customers,
                   holds |-> hs, seqs |-> [sq EXCEPT !.customer = c.next],
                   records |-> {AuditRecord("CUSTOMER_CREATE_DIRECT", "customers", c.cid)}]
         ELSE same(FALSE, FALSE)

(***************************************************************************)
(* Inputs.  A file is a sequence of indices into a catalog of ETL rows;    *)
(* its hash is a positional code of the indices (injective, never 0).      *)
(***************************************************************************)
MaxBatch == 2
MaxCust == 2
MaxCont == 2
MaxHold == 2
MaxOps == 5
MaxNameLen == 3

Fin(policy_no, premium, insured_name, insured_phone, insured_birth) ==
    <<[company |-> <<"S">>, product_name |-> <<"C">>, policy_no |-> policy_no,
       premium |-> premium, status |-> <<>>, start_date |-> <<>>,
       end_date |-> <<>>, insured_name |-> insured_name,
       insured_phone |-> insured_phone, insured_birth |-> insured_birth,
       insured_gender |-> <<>>, coverage_summary |-> <<>>]>>

EtlRow(name, phone, birth_date, financial) ==
    [name |-> name, phone |-> phone, birth_date |-> birth_date, gender |-> <<>>,
     region |-> <<>>, email |-> <<>>, custom_data |-> <<>>, match_key |-> <<>>,
     financial |-> financial]

\* the files of the upload workflow: K and L share phone 1, M has phone 2;
\* K's two contract lines differ in the policy number only
Catalog ==
    << EtlRow(<<"K">>, <<"1">>, <<>>, Fin(<<"A", "1">>, <<"1">>, <<>>, <<>>, <<>>)),
       EtlRow(<<"L">>, <<"1">>, <<>>, Fin(<<"A", "1">>, <<"1">>, <<>>, <<>>, <<>>)),
       EtlRow(<<"M">>, <<"2">>, <<>>, Fin(<<"A", "1">>, <<"1">>, <<>>, <<>>, <<>>)) >>

Files(catalog, n) == UNION {[1..k -> 1..Len(catalog)] : k \in 1..n}

RowsOf(catalog, f) == [i \in 1..Len(f) |-> catalog[f[i]]]

RECURSIVE FileHash(_)
FileHash(f) ==
    IF f = <<>> THEN 1 ELSE f[Len(f)] + 10 * FileHash(SubSeq(f, 1, Len(f) - 1))

RealAlphabet == {"a", "x", " "}
MaskAlphabet == {"a", " ", "*", "?", "X", "x"}

TextsOver(A, n) == UNION {[1..k -> A] : k \in 0..n}

(***************************************************************************)
(* States and operations                                                   *)
(***************************************************************************)
NoAnalysis == [ok |-> FALSE, file |-> <<>>, file_hash |-> NoId, rows |-> <<>>]
\* two sessions, each with one connection at a time
Conns == {1, 2}
Idle == [fn |-> "none", pc |-> "idle", a |-> [customer_id |-> NoId], plan |-> "",
         seen |-> NoId, call |-> 0, peer |-> 0, res |-> ""]

NoLog == [op |-> "init", raised |-> FALSE, out |-> <<>>, args |-> <<>>]
NmIdle == [real |-> <<>>, masked |-> <<>>, out |-> "idle"]

\* the upload_holds table: the sources hold no CREATE TABLE for it; it is
\* taken to exist and to start empty, as the persisted state layout says
UploadHolds == {}

EmptyStore ==
    /\ customers = {}
    /\ contracts = {}
    /\ holds = UploadHolds
    /\ seqs = [customer |-> 1, contract |-> 1, hold |-> 1]
    /\ ana = NoAnalysis
    /\ log = NoLog
    /\ ops = 0
    /\ trail = {}
    /\ conns = [i \in Conns |-> Idle]

\* the operations of a session count towards the bound of its length
Tick ==
    /\ ops < MaxOps
    /\ ops' = ops + 1

Init ==
    /\ EmptyStore
    /\ nm = NmIdle

\* an analysis that stores the holds of its result right away
Analyze_storing_holds(catalog, f) ==
    /\ \E a \in {analyze_processed_df(customers, contracts, RowsOf(catalog, f))} :
       /\ ana' = [ok |-> a.ok, file |-> f, file_hash |-> FileHash(f), rows |-> a.rows]
       /\ log' = [op |-> "analyze", raised |-> ~a.ok, out |-> <<>>, args |-> <<f>>]
       /\ \E s \in {sync_upload_holds(customers, holds, seqs.hold, FileHash(f), a.rows)} :
             /\ holds' = IF a.ok THEN s.holds ELSE holds
             /\ seqs' = IF a.ok THEN [seqs EXCEPT !.hold = s.next] ELSE seqs
    /\ UNCHANGED <<customers, contracts, nm, trail, conns>>

\* the upload screen analyses a file (main.py 1248)
Analyze(catalog, f) ==
    /\ \E a \in {analyze_processed_df(customers, contracts, RowsOf(catalog, f))} :
       /\ ana' = [ok |-> a.ok, file |-> f, file_hash |-> FileHash(f), rows |-> a.rows]
       /\ log' = [op |-> "analyze", raised |-> ~a.ok, out |-> <<>>, args |-> <<f>>]
    /\ UNCHANGED <<customers, contracts, holds, seqs, nm, trail, conns>>

\* sync_upload_holds on the rows of the last analysis
\* (the HOLD_CREATE audit record of a new hold is written on a second
\* connection while the insert of the hold is uncommitted: the write waits
\* for the lock, fails, and audit_log swallows the error)
SyncHolds ==
    /\ ana.ok
    /\ \E s \in {sync_upload_holds(customers, holds, seqs.hold, ana.file_hash, ana.rows)} :
       /\ s.next <= MaxHold + 1
       /\ holds' = s.holds
       /\ seqs' = [seqs EXCEPT !.hold = s.next]
       /\ log' = [op |-> "sync", raised |-> FALSE, out |-> <<>>,
                  args |-> <<ana.file_hash, ana.rows>>]
    /\ UNCHANGED <<customers, contracts, ana, nm, trail, conns>>

\* the decisions the upload screen can hand over: one per held row, a
\* use_existing decision names a stored customer
DecisionsOver(rows, ids) ==
    {d \in [1..Len(rows) ->
              {NoDecision, [mode |-> "skip", customer_id |-> NoId],
               [mode |-> "create_new", customer_id |-> NoId]}
              \cup {[mode |-> "use_existing", customer_id |-> c] : c \in ids \cup {NoId}}] :
        \A i \in 1..Len(rows) :
            rows[i].customer_status # "HOLD" => d[i] = NoDecision}

DecisionsFor(rows) == DecisionsOver(rows, Ids(customers))

\* apply_import on the rows of the last analysis (main.py 1633, which passes
\* the file's hash); the rows may be older than the store
ApplyImportWith(o, decision_sets) ==
    /\ ana.ok
    /\ \E decisions \in decision_sets :
          \E p \in {[apply_updates |-> o.apply_updates, apply_same |-> o.apply_same,
                     allow_hold |-> o.allow_hold, file_hash |-> ana.file_hash,
                     decisions |-> decisions]} :
          \E st \in {apply_import(customers, contracts, holds, seqs, ana.rows, p)} :
              /\ st.seqs.customer <= MaxCust + 1
              /\ st.seqs.contract <= MaxCont + 1
              /\ customers' = st.customers
              /\ contracts' = st.contracts
              /\ holds' = st.holds
              /\ seqs' = st.seqs
              /\ log' = [op |-> "apply", raised |-> st.raised, out |-> st.out,
                         args |-> <<p>>]
              /\ trail' = trail \cup UNION {st.out[i].records : i \in 1..Len(st.out)}
    /\ UNCHANGED <<ana, nm, conns>>

ApplyImport(o) == ApplyImportWith(o, DecisionsFor(ana.rows))

\* a hold screen that keeps only the latest records of a hold
HoldDecisionWith_replacing(targets) ==
    /\ \E hold_id \in Ids(holds), dec \in {"SKIP", "MAP_EXISTING", "CREATE_NEW"},
       target \in {NoId} \cup targets, corrected_given \in BOOLEAN :
       \E d \in {apply_upload_hold_decision(customers, holds, seqs, hold_id, dec,
                                             target, corrected_given)} :
           /\ d.seqs.customer <= MaxCust + 1
           /\ customers' = d.customers
           /\ holds' = d.holds
           /\ seqs' = d.seqs
           /\ log' = [op |-> "decide", raised |-> d.raised, out |-> <<d.ok, d.records>>,
                      args |-> <<hold_id, dec, target, corrected_given>>]
           /\ trail' = {x \in trail : x.hold_id # hold_id} \cup d.records
           /\ UNCHANGED <<contracts, ana, nm, conns>>

\* a decision that goes on to write the contract of the stored row
HoldDecisionWith_writing(targets) ==
    /\ \E hold_id \in Ids(holds), dec \in {"SKIP", "MAP_EXISTING", "CREATE_NEW"},
       target \in {NoId} \cup targets, corrected_given \in BOOLEAN :
       \E d \in {apply_upload_hold_decision(customers, holds, seqs, hold_id, dec,
                                             target, corrected_given)} :
           /\ d.seqs.customer <= MaxCust + 1
           /\ customers' = d.customers
           /\ holds' = d.holds
           /\ log' = [op |-> "decide", raised |-> d.raised, out |-> <<d.ok, d.records>>,
                      args |-> <<hold_id, dec, target, corrected_given>>]
           /\ trail' = trail \cup d.records
           /\ IF dec = "MAP_EXISTING" /\ target # NoId /\ ~ corrected_given
              THEN /\ seqs.contract <= MaxCont
                   /\ contracts' = contracts \cup
                          {ContractRow(seqs.contract, target,
                               ContractColumns(PayloadArgs(target, RowOf(holds, hold_id).raw)))}
                   /\ seqs' = [d.seqs EXCEPT !.contract = seqs.contract + 1]
              ELSE /\ contracts' = contracts
                   /\ seqs' = d.seqs
           /\ UNCHANGED <<ana, nm, conns>>

\* the hold screen applies a decision (main.py 1161 passes corrections)
HoldDecisionWith(targets) ==
    /\ \E hold_id \in Ids(holds), dec \in {"SKIP", "MAP_EXISTING", "CREATE_NEW"},
       target \in {NoId} \cup targets, corrected_given \in BOOLEAN :
       \E d \in {apply_upload_hold_decision(customers, holds, seqs, hold_id, dec,
                                             target, corrected_given)} :
           /\ d.seqs.customer <= MaxCust + 1
           /\ customers' = d.customers
           /\ holds' = d.holds
           /\ seqs' = d.seqs
           /\ log' = [op |-> "decide", raised |-> d.raised, out |-> <<d.ok, d.records>>,
                      args |-> <<hold_id, dec, target, corrected_given>>]
           /\ trail' = trail \cup d.records
           /\ UNCHANGED <<contracts, ana, nm, conns>>

HoldDecision == HoldDecisionWith(Ids(customers))

\* the hold screen marks a hold as resolved by hand
MarkResolved ==
    /\ \E hold_id \in Ids(holds) :
       \E m \in {set_upload_hold_status(holds, hold_id, "RESOLVED")} :
           /\ holds' = m.holds
           /\ log' = [op |-> "mark", raised |-> FALSE, out |-> <<m.ok>>,
                      args |-> <<hold_id>>]
    /\ UNCHANGED <<customers, contracts, seqs, ana, nm, trail, conns>>

\* update_upload_hold_corrected: NameError at line 1407, before any write
CorrectHold ==
    /\ \E hold_id \in Ids(holds) :
       /\ log' = [op |-> "correct", raised |-> TRUE, out |-> <<>>, args |-> <<hold_id>>]
       /\ UNCHANGED <<customers, contracts, holds, seqs, ana, nm, trail, conns>>

\* the customer form (main.py 970): upsert_customer_identity
NewCustomer(name, phone) ==
    /\ \E u \in {upsert_customer_identity(customers, seqs.customer,
                    [name |-> name, phone |-> phone, birth_date |-> <<>>,
                     gender |-> <<>>, region |-> <<>>, email |-> <<>>,
                     custom_data |-> <<>>, match_key |-> <<>>])} :
           /\ u.next <= MaxCust + 1
           /\ customers' = u.customers
           /\ seqs' = [seqs EXCEPT !.customer = u.next]
           /\ log' = [op |-> "customer", raised |-> FALSE, out |-> <<u.msg>>,
                      args |-> <<name, phone>>]
    /\ UNCHANGED <<contracts, holds, ana, nm, trail, conns>>

\* name and phone typed into the customer form
FormCustomers == {<<<<"K">>, <<"1">>>>, <<<<"M">>, <<"2">>>>}

ApplyOptions ==
    {[apply_updates |-> TRUE, apply_same |-> FALSE, allow_hold |-> FALSE],
     [apply_updates |-> TRUE, apply_same |-> TRUE, allow_hold |-> TRUE]}

\* the uploads of the workflow: K and L together, L alone, K alone
UploadFiles == {<<1, 2>>, <<2>>, <<1>>}

Next == \/ Tick /\ \E f \in UploadFiles : Analyze(Catalog, f)
        \/ Tick /\ SyncHolds
        \/ Tick /\ \E o \in ApplyOptions : ApplyImport(o)
        \/ Tick /\ HoldDecision
        \/ Tick /\ CorrectHold
        \/ Tick /\ MarkResolved
        \/ Tick /\ \E n \in FormCustomers : NewCustomer(n[1], n[2])

Spec == Init /\ [][Next]_vars

(***************************************************************************)
(* The masked-name verifier on its own                                     *)
(***************************************************************************)
InitName ==
    /\ EmptyStore
    /\ \E r \in TextsOver(RealAlphabet, MaxNameLen),
          m \in TextsOver(MaskAlphabet, MaxNameLen) :
          nm = [real |-> r, masked |-> m, out |-> "idle"]

NameMatch ==
    /\ nm.out = "idle"
    /\ nm' = [nm EXCEPT !.out = IF is_name_match(nm.real, nm.masked) THEN "true" ELSE "false"]
    /\ UNCHANGED <<customers, contracts, holds, seqs, ana, log, ops, trail, conns>>

NextName == NameMatch

SpecName == InitName /\ [][NextName]_vars

(***************************************************************************)
(* Batches that list one customer more than once, and customers that      *)
(* share a policy number                                                   *)
(***************************************************************************)
CatalogBatch ==
    << EtlRow(<<"K">>, <<"1">>, <<>>, Fin(<<"A", "1">>, <<"1">>, <<>>, <<>>, <<>>)),
       EtlRow(<<"K">>, <<"1">>, <<>>, Fin(<<"A", "2">>, <<"1">>, <<>>, <<>>, <<>>)),
       EtlRow(<<"M">>, <<"2">>, <<>>, Fin(<<"A", "1">>, <<"1">>, <<>>, <<>>, <<>>)) >>

NextBatch ==
    \/ Tick /\ \E f \in Files(CatalogBatch, MaxBatch) : Analyze(CatalogBatch, f)
    \/ Tick /\ \E o \in ApplyOptions : ApplyImport(o)

SpecBatch == Init /\ [][NextBatch]_vars

(***************************************************************************)
(* Files with a corporate policyholder                                     *)
(***************************************************************************)
Corp == <<"U+3231", "S">>

CatalogCorp ==
    << [EtlRow(Corp, <<"3">>, <<"9">>,
               Fin(<<"A", "1">>, <<"1">>, <<"M">>, <<"2">>, <<>>))
          EXCEPT !.gender = <<"X">>],
       EtlRow(Corp, <<"3">>, <<>>,
              <<[Fin(<<"A", "2">>, <<"1">>, <<"M">>, <<>>, <<"8">>)[1]
                   EXCEPT !.insured_gender = <<"P">>]>>),
       EtlRow(<<"K">>, <<"1">>, <<>>,
              Fin(<<"A", "3">>, <<"1">>, <<"M">>, <<"2">>, <<>>)) >>

NextCorp ==
    \/ Tick /\ \E f \in Files(CatalogCorp, MaxBatch) : Analyze(CatalogCorp, f)
    \/ Tick /\ \E o \in ApplyOptions : ApplyImport(o)

SpecCorp == Init /\ [][NextCorp]_vars

\* a corporate policyholder whose contract names no insured, one without
\* contract, one with an insured, and a person
CatalogRole ==
    << EtlRow(Corp, <<"3">>, <<>>, Fin(<<"A", "1">>, <<"1">>, <<>>, <<>>, <<>>)),
       EtlRow(Corp, <<"3">>, <<>>, <<>>),
       EtlRow(Corp, <<"3">>, <<>>, Fin(<<"A", "2">>, <<"1">>, <<"M">>, <<"2">>, <<>>)),
       EtlRow(<<"K">>, <<"1">>, <<>>, Fin(<<"A", "3">>, <<"1">>, <<"M">>, <<"2">>, <<>>)) >>

NextRole ==
    \/ Tick /\ \E f \in Files(CatalogRole, MaxBatch) : Analyze(CatalogRole, f)
    \/ Tick /\ \E o \in ApplyOptions : ApplyImport(o)

SpecRole == Init /\ [][NextRole]_vars

(***************************************************************************)
(* Holds of rows without a contract: K has a contract line, L and M come   *)
(* on K's phone without one                                                *)
(***************************************************************************)
CatalogBare ==
    << EtlRow(<<"K">>, <<"1">>, <<>>, Fin(<<"A", "1">>, <<"1">>, <<>>, <<>>, <<>>)),
       EtlRow(<<"L">>, <<"1">>, <<>>, <<>>),
       EtlRow(<<"M">>, <<"1">>, <<>>, <<>>) >>

\* K alone, L alone, K and M together
BareFiles == {<<1>>, <<2>>, <<1, 3>>}

NextBare ==
    \/ Tick /\ \E f \in BareFiles : Analyze(CatalogBare, f)
    \/ Tick /\ SyncHolds
    \/ Tick /\ \E o \in ApplyOptions : ApplyImport(o)
    \/ Tick /\ HoldDecision

SpecBare == Init /\ [][NextBare]_vars

(***************************************************************************)
(* Contracts entered one by one (main.py 764, 970)                         *)
(***************************************************************************)
ContractArgs(cid, policy_no, premium) ==
    [customer_id |-> cid, company |-> <<"S">>, product_name |-> <<"C">>,
     policy_no |-> policy_no, premium |-> premium, status |-> <<>>,
     start_date |-> <<>>, end_date |-> <<>>, insured_name |-> <<>>,
     insured_phone |-> <<>>, insured_birth |-> <<>>, insured_gender |-> <<>>,
     coverage_summary |-> <<>>, policyholder_name |-> <<>>,
     policyholder_phone |-> <<>>, policyholder_type |-> "",
     policyholder_norm |-> <<>>, primary_role |-> ""]

\* the contract form: add_contract
AddContract(a) ==
    /\ \E c \in {add_contract(customers, contracts, seqs.contract, a)} :
       /\ c.next <= MaxCont + 1
       /\ contracts' = c.contracts
       /\ seqs' = [seqs EXCEPT !.contract = c.next]
       /\ log' = [op |-> "add", raised |-> FALSE,
                  out |-> <<c.res, {x.key_hash : x \in contracts}>>, args |-> <<a>>]
    /\ UNCHANGED <<customers, holds, ana, nm, trail, conns>>

PolicyTexts == {<<"A", "B", "-", "1">>, <<"a", "b", "1">>, <<>>}
PremiumTexts == {<<"1">>, <<"2">>}

NextContract ==
    \/ Tick /\ \E n \in FormCustomers : NewCustomer(n[1], n[2])
    \/ Tick /\ \E cid \in Ids(customers), pol \in PolicyTexts, prem \in PremiumTexts :
                  AddContract(ContractArgs(cid, pol, prem))

SpecContract == Init /\ [][NextContract]_vars

(***************************************************************************)
(* Contracts whose policy number or insured gender changes between calls   *)
(***************************************************************************)
DriftArgs(cid, policy_no, premium, gender) ==
    [ContractArgs(cid, policy_no, premium) EXCEPT !.insured_gender = gender]

\* two numbers, one of them in two spellings, and no number
DriftPolicies == {<<"A">>, <<"a">>, <<"B">>, <<>>}
GenderTexts == {<<>>, <<"M">>}

\* one customer owns the contracts
DriftCustomers == {<<<<"K">>, <<"1">>>>}

NextDrift ==
    \/ Tick /\ \E n \in DriftCustomers : NewCustomer(n[1], n[2])
    \/ Tick /\ \E cid \in Ids(customers), pol \in DriftPolicies, prem \in PremiumTexts,
                    g \in GenderTexts : AddContract(DriftArgs(cid, pol, prem, g))

SpecDrift == Init /\ [][NextDrift]_vars

(***************************************************************************)
(* Customers saved field by field (main.py 970, smart_import.py 723)       *)
(***************************************************************************)
\* the callers of upsert_customer_identity with every field
SaveCustomer(a) ==
    /\ \E u \in {upsert_customer_identity(customers, seqs.customer, a)} :
           /\ u.next <= MaxCust + 1
           /\ customers' = u.customers
           /\ seqs' = [seqs EXCEPT !.customer = u.next]
           /\ log' = [op |-> "upsert", raised |-> FALSE, out |-> <<u.msg, u.cid>>,
                      args |-> <<a>>]
    /\ UNCHANGED <<contracts, holds, ana, nm, trail, conns>>

\* phone 1 under two names with every field empty, filled or a space;
\* phone 2 with empty fields
MergeInputs ==
    {[name |-> n, phone |-> <<"1">>, birth_date |-> b, gender |-> g, region |-> r,
      email |-> e, custom_data |-> cd, match_key |-> <<>>] :
        n \in {<<"K">>, <<"L">>}, b \in {<<>>, <<"9">>, <<" ">>}, g \in {<<>>, <<"M">>},
        r \in {<<>>, <<"R">>}, e \in {<<>>, <<"E">>}, cd \in {<<>>, <<"{", "}">>}}
    \cup {[name |-> <<"M">>, phone |-> <<"2">>, birth_date |-> <<"8">>, gender |-> <<>>,
           region |-> <<>>, email |-> <<>>, custom_data |-> <<>>, match_key |-> <<>>]}

NextMerge == UNCHANGED ops /\ \E a \in MergeInputs : SaveCustomer(a)

SpecMerge == Init /\ [][NextMerge]_vars

(***************************************************************************)
(* Imports, hold decisions that name any customer id, stored or not, and   *)
(* deletions from the customer screen (main.py 941)                        *)
(***************************************************************************)
\* the customer screen: delete_customer
DeleteCustomer(cid) ==
    /\ \E d \in {delete_customer(customers, contracts, cid)} :
          /\ customers' = d.customers
          /\ contracts' = d.contracts
    /\ log' = [op |-> "delete", raised |-> FALSE,
               out |-> <<{c.id : c \in {x \in contracts : x.customer_id = cid}}>>,
               args |-> <<cid>>]
    /\ UNCHANGED <<holds, seqs, ana, nm, trail, conns>>

AnyCustomerId == 1..(MaxCust + 1)

NextOwner ==
    \/ Tick /\ \E f \in UploadFiles \cup {<<3>>} : Analyze(Catalog, f)
    \/ Tick /\ SyncHolds
    \/ Tick /\ \E o \in ApplyOptions : ApplyImportWith(o, DecisionsOver(ana.rows, AnyCustomerId))
    \/ Tick /\ HoldDecisionWith(AnyCustomerId)
    \/ Tick /\ CorrectHold
    \/ Tick /\ MarkResolved
    \/ Tick /\ \E cid \in Ids(customers) : DeleteCustomer(cid)

SpecOwner == Init /\ [][NextOwner]_vars

(***************************************************************************)
(* Analysis of files whose rows share a phone; the stored names can be     *)
(* entered and edited by hand (main.py 970, 732)                           *)
(***************************************************************************)
MaxRows == 3

NoFin == <<>>

CatalogAnalysis ==
    << EtlRow(<<"K">>, <<"1">>, <<>>, NoFin),
       EtlRow(<<"L">>, <<"1">>, <<>>, NoFin),
       EtlRow(<<" ">>, <<"1">>, <<>>, NoFin) >>

\* the edit form saved with another name, the other fields as they were
EditCustomer(cid, name) ==
    /\ LET old == RowOf(customers, cid) IN
       customers' = update_customer_direct(customers, cid, name, old.phone,
                        old.birth_date, old.gender, old.region, old.email)
    /\ log' = [op |-> "edit", raised |-> FALSE, out |-> <<>>, args |-> <<cid, name>>]
    /\ UNCHANGED <<contracts, holds, seqs, ana, nm, trail, conns>>

NextAnalysis ==
    \/ UNCHANGED ops /\ \E f \in Files(CatalogAnalysis, MaxRows) : Analyze(CatalogAnalysis, f)
    \/ UNCHANGED ops /\ NewCustomer(<<"K">>, <<"1">>)
    \/ UNCHANGED ops /\ \E cid \in Ids(customers), name \in {<<" ">>, <<"L">>} :
                            EditCustomer(cid, name)

SpecAnalysis == Init /\ [][NextAnalysis]_vars

(***************************************************************************)
(* Analysis of rows without a phone or with a phone nobody has             *)
(***************************************************************************)
Phone4 == <<"1", "2", "3", "4">>

\* customers of the form: K with and without a birth date, and L
LookupCustomers ==
    {[name |-> <<"K">>, phone |-> Phone4, birth_date |-> b, gender |-> <<>>,
      region |-> <<>>, email |-> <<>>, custom_data |-> <<>>, match_key |-> <<>>] :
        b \in {<<>>, <<"8">>, <<"9">>}}
    \cup {[name |-> <<"L">>, phone |-> <<"5">>, birth_date |-> <<"9">>, gender |-> <<>>,
           region |-> <<>>, email |-> <<>>, custom_data |-> <<>>, match_key |-> <<>>]}

\* rows without digits in the phone (a birth date, none, a match key of
\* their own, another name) and rows with a phone nobody has
CatalogLookup ==
    << EtlRow(<<"K">>, <<>>, <<"9">>, NoFin),
       EtlRow(<<"K">>, <<"-">>, <<>>, NoFin),
       [EtlRow(<<"M">>, <<>>, <<>>, NoFin) EXCEPT !.match_key = <<"K">> \o Phone4],
       EtlRow(<<"M">>, <<>>, <<>>, NoFin),
       EtlRow(<<"K">>, <<"2">>, <<"9">>, NoFin),
       EtlRow(<<"K">>, <<"2">>, <<>>, NoFin) >>

\* the files that keep the rows in the catalog's order
LookupFiles ==
    {f \in Files(CatalogLookup, MaxBatch) :
        \A i \in DOMAIN f : \A j \in DOMAIN f : i < j => f[i] <= f[j]}

NextLookup ==
    \/ UNCHANGED ops /\ \E f \in LookupFiles : Analyze(CatalogLookup, f)
    \/ UNCHANGED ops /\ \E a \in LookupCustomers : SaveCustomer(a)

SpecLookup == Init /\ [][NextLookup]_vars

(***************************************************************************)
(* Sheets of contracts under masked names (main.py 1293)                   *)
(***************************************************************************)
\* two customers whose names and phones give one match key
MaskedCustomers ==
    {<<<<"K", "A", "M">>, Phone4>>, <<<<"K", "B", "M">>, <<"5">> \o Phone4>>}

\* a masked name, a name in full, and a masked name nobody has
MaskedNames == {<<"K", "*", "M">>, <<"K", "A", "M">>, <<"K", "*", "L">>}

\* the sheet has one row: bulk_import_masked_contracts
MaskedImport(masked_name, a) ==
    /\ \E r \in {MaskedRow(customers, contracts, seqs.contract, masked_name, Phone4, a)} :
       /\ r.next <= MaxCont + 1
       /\ contracts' = r.contracts
       /\ seqs' = [seqs EXCEPT !.contract = r.next]
       /\ log' = [op |-> "masked", raised |-> FALSE, out |-> <<r.res, r.target>>,
                  args |-> <<masked_name, Phone4, a>>]
    /\ UNCHANGED <<customers, holds, ana, nm, trail, conns>>

NextMasked ==
    \/ Tick /\ \E n \in MaskedCustomers : NewCustomer(n[1], n[2])
    \/ Tick /\ \E m \in MaskedNames, pol \in PolicyTexts, prem \in PremiumTexts :
                  MaskedImport(m, ContractArgs(NoId, pol, prem))

SpecMasked == Init /\ [][NextMasked]_vars

(***************************************************************************)
(* Customers saved with a phone text that has no digit                     *)
(***************************************************************************)
InsertCustomerData(catalog, f) ==
    /\ \E st \in {insert_customer_data(customers, contracts, seqs, RowsOf(catalog, f))} :
          /\ st.seqs.customer <= MaxCust + 1
          /\ st.seqs.contract <= MaxCont + 1
          /\ customers' = st.customers
          /\ contracts' = st.contracts
          /\ seqs' = st.seqs
          /\ log' = [op |-> "data", raised |-> FALSE, out |-> st.out,
                     args |-> <<RowsOf(catalog, f)>>]
    /\ UNCHANGED <<holds, ana, nm, trail, conns>>

\* K and L with a dash for a phone, M with phone 2
CatalogBlank ==
    << EtlRow(<<"K">>, <<"-">>, <<>>, Fin(<<"A", "1">>, <<"1">>, <<>>, <<>>, <<>>)),
       EtlRow(<<"L">>, <<"-">>, <<>>, Fin(<<"A", "2">>, <<"1">>, <<>>, <<>>, <<>>)),
       EtlRow(<<"M">>, <<"2">>, <<>>, Fin(<<"A", "1">>, <<"1">>, <<>>, <<>>, <<>>)) >>

BlankCustomers == {<<<<"K">>, <<"-">>>>, <<<<"L">>, <<"-">>>>, <<<<"M">>, <<"2">>>>}

NextBlank ==
    \/ Tick /\ \E n \in BlankCustomers : NewCustomer(n[1], n[2])
    \/ Tick /\ \E f \in Files(CatalogBlank, MaxBatch) : InsertCustomerData(CatalogBlank, f)

SpecBlank == Init /\ [][NextBlank]_vars

(***************************************************************************)
(* Two sessions.  Every call opens its own connection; its SELECTs run in  *)
(* autocommit, its INSERT or UPDATE and the commit take the write lock, so *)
(* a call is two steps: the lookups, then the write (or the return).       *)
(***************************************************************************)
\* the lookups of add_contract: what the call decides to do, and to which row
ContractLookup(conts, a) ==
    Only({
    LET by_key == {c \in conts : c.key_hash = cols.key_hash}
        m1 == IF by_key # {} THEN ById(by_key)[1].id ELSE NoId
        m2 == IF m1 # NoId THEN m1
              ELSE PolicyMatch(conts, a.customer_id, cols.policy_no_norm, cols.content_hash)
        sm == StableMatch(conts, a.customer_id, cols.stable_hash,
                          cols.policy_no_norm, cols.content_hash)
        match_id == IF m2 # NoId THEN m2 ELSE sm.id
    IN  IF m2 = NoId /\ sm.ambig THEN [plan |-> "ambig", seen |-> NoId]
        ELSE IF match_id # NoId
        THEN IF RowOf(conts, match_id).content_hash = cols.content_hash
             THEN [plan |-> "same", seen |-> match_id]
             ELSE [plan |-> "update", seen |-> match_id]
        ELSE [plan |-> "insert", seen |-> NoId]
    : cols \in {ContractColumns(a)} })

Other(i) == 3 - i

\* the call number of the other connection if it is between lookup and write
Peer(i) == IF conns[Other(i)].pc = "looked" THEN conns[Other(i)].call ELSE 0

BeginAdd(i, a) ==
    /\ conns[i].pc # "looked"
    /\ \E l \in {ContractLookup(contracts, a)} :
          conns' = [conns EXCEPT ![i] = [fn |-> "add_contract", pc |-> "looked", a |-> a,
                                         plan |-> l.plan, seen |-> l.seen,
                                         call |-> ops', peer |-> 0, res |-> ""]]
    /\ UNCHANGED <<customers, contracts, holds, seqs, ana, nm, log, trail>>

\* a contracts table without the UNIQUE index on key_hash
FinishAdd_no_unique_index(i) ==
    /\ conns[i].fn = "add_contract"
    /\ conns[i].pc = "looked"
    /\ \E c \in {conns[i]} : \E cols \in {ContractColumns(c.a)} :
       \E w \in {IF c.plan \in {"same", "ambig"} THEN [res |-> c.plan, contracts |-> contracts]
                 ELSE IF c.plan = "update"
                 THEN [res |-> "update",
                       contracts |-> {IF x.id = c.seen
                                      THEN ContractRow(x.id, x.customer_id, cols) ELSE x :
                                      x \in contracts}]
                 ELSE IF c.a.customer_id \notin Ids(customers)
                 THEN [res |-> "fail", contracts |-> contracts]
                 ELSE [res |-> "insert",
                       contracts |-> contracts \cup
                           {ContractRow(seqs.contract, c.a.customer_id, cols)}]} :
          /\ w.res = "insert" => seqs.contract <= MaxCont
          /\ contracts' = w.contracts
          /\ seqs' = IF w.res = "insert"
                     THEN [seqs EXCEPT !.contract = seqs.contract + 1] ELSE seqs
          /\ conns' = [conns EXCEPT ![i].pc = "done", ![i].res = w.res, ![i].peer = Peer(i)]
          /\ log' = [op |-> "conn", raised |-> FALSE, out |-> <<w.res>>, args |-> <<i, c.a>>]
    /\ UNCHANGED <<customers, holds, ana, nm, trail>>

\* the write of add_contract on the store as it is now
FinishAdd(i) ==
    /\ conns[i].fn = "add_contract"
    /\ conns[i].pc = "looked"
    /\ \E c \in {conns[i]} : \E cols \in {ContractColumns(c.a)} :
       \E w \in {IF c.plan \in {"same", "ambig"} THEN [res |-> c.plan, contracts |-> contracts]
                 ELSE IF c.plan = "update"
                 \* UNIQUE(key_hash) fails; the fallback UPDATE binds 16 values
                 \* to 21 placeholders, the error is caught by the outer handler
                 THEN IF \E x \in contracts : x.id # c.seen /\ x.key_hash = cols.key_hash
                      THEN [res |-> "fail", contracts |-> contracts]
                      ELSE [res |-> "update",
                            contracts |-> {IF x.id = c.seen
                                           THEN ContractRow(x.id, x.customer_id, cols) ELSE x :
                                           x \in contracts}]
                 \* INSERT: IntegrityError when the key_hash is stored by now;
                 \* the handler answers same for equal content, and its UPDATE
                 \* fails as above otherwise
                 ELSE IF \E x \in contracts : x.key_hash = cols.key_hash
                 THEN IF \E x \in contracts : /\ x.key_hash = cols.key_hash
                                              /\ x.content_hash = cols.content_hash
                      THEN [res |-> "same", contracts |-> contracts]
                      ELSE [res |-> "fail", contracts |-> contracts]
                 ELSE IF c.a.customer_id \notin Ids(customers)
                 THEN [res |-> "fail", contracts |-> contracts]
                 ELSE [res |-> "insert",
                       contracts |-> contracts \cup
                           {ContractRow(seqs.contract, c.a.customer_id, cols)}]} :
          /\ w.res = "insert" => seqs.contract <= MaxCont
          /\ contracts' = w.contracts
          /\ seqs' = IF w.res = "insert"
                     THEN [seqs EXCEPT !.contract = seqs.contract + 1] ELSE seqs
          /\ conns' = [conns EXCEPT ![i].pc = "done", ![i].res = w.res, ![i].peer = Peer(i)]
          /\ log' = [op |-> "conn", raised |-> FALSE, out |-> <<w.res>>, args |-> <<i, c.a>>]
    /\ UNCHANGED <<customers, holds, ana, nm, trail>>

\* the lookup of upsert_customer_identity
BeginUpsert(i, a) ==
    /\ conns[i].pc # "looked"
    /\ \E u \in {upsert_customer_identity(customers, seqs.customer, a)} :
          conns' = [conns EXCEPT ![i] = [fn |-> "upsert_customer_identity", pc |-> "looked",
                                         a |-> a, plan |-> u.msg,
                                         seen |-> IF u.msg = "Update" THEN u.cid ELSE NoId,
                                         call |-> ops', peer |-> 0, res |-> ""]]
    /\ UNCHANGED <<customers, contracts, holds, seqs, ana, nm, log, trail>>

\* the UPDATE of the row found by the lookup, or the INSERT, on the store as
\* it is now
FinishUpsert(i) ==
    /\ conns[i].fn = "upsert_customer_identity"
    /\ conns[i].pc = "looked"
    /\ \E c \in {conns[i]} :
       \E found \in {{x \in customers : x.id = c.seen}} :
       \E u \in {IF c.plan = "Update" /\ found = {}
                 THEN [msg |-> "Update", customers |-> {}, next |-> seqs.customer]
                 ELSE upsert_customer_identity(found, seqs.customer, c.a)} :
          /\ u.next <= MaxCust + 1
          /\ customers' = (customers \ found) \cup u.customers
          /\ seqs' = [seqs EXCEPT !.customer = u.next]
          /\ conns' = [conns EXCEPT ![i].pc = "done", ![i].res = u.msg, ![i].peer = Peer(i)]
          /\ log' = [op |-> "conn", raised |-> FALSE, out |-> <<u.msg>>, args |-> <<i, c.a>>]
    /\ UNCHANGED <<contracts, holds, ana, nm, trail>>

RaceCustomers ==
    {[name |-> n, phone |-> <<"1">>, birth_date |-> <<>>, gender |-> <<>>, region |-> <<>>,
      email |-> <<>>, custom_data |-> <<>>, match_key |-> <<>>] : n \in {<<"K">>, <<"L">>}}

RaceContracts == {ContractArgs(1, <<"A">>, prem) : prem \in PremiumTexts}

NextRace ==
    \/ Tick /\ \E i \in Conns, a \in RaceCustomers : BeginUpsert(i, a)
    \/ UNCHANGED ops /\ \E i \in Conns : FinishUpsert(i)
    \/ Tick /\ \E i \in Conns, a \in RaceContracts : BeginAdd(i, a)
    \/ UNCHANGED ops /\ \E i \in Conns : FinishAdd(i)

SpecRace == Init /\ [][NextRace]_vars

(***************************************************************************)
(* Properties of the upload workflow                                       *)
(***************************************************************************)

\* C3: in every reachable state no two contracts owned by different
\* customers share a non-empty normalized policy number.
NoSharedPolicyAcrossCustomers ==
    \A c1 \in contracts : \A c2 \in contracts :
        (c1.customer_id # c2.customer_id /\ c1.policy_no_norm # <<>>)
            => c1.policy_no_norm # c2.policy_no_norm

\* C5: a sync_upload_holds call leaves every RESOLVED hold exactly as it
\* was: status, reason, snapshots and candidate list.
ResolvedSurvivesSync ==
    [][log'.op = "sync" =>
          \A h \in holds : h.status = "RESOLVED" => h \in holds']_vars

\* a sync has just met a RESOLVED hold of its file whose row is held again
\* and for which it would now compute another candidate list
ResolvedSurvivesSync_witness ==
    /\ log.op = "sync"
    /\ \E h \in holds :
          /\ h.status = "RESOLVED"
          /\ h.file_hash = log.args[1]
          /\ h.row_no \in 1..Len(log.args[2])
          /\ log.args[2][h.row_no].row_status = "HOLD"
          /\ SyncCols(customers, log.args[2][h.row_no]).candidates # h.candidates

\* the operation recorded in l applied an explicit MAP_EXISTING / CREATE_NEW
\* decision to hold h
ExplicitDecision(l, h) ==
    \/ /\ l.op = "decide"
       /\ l.args[1] = h.id
       /\ l.args[2] \in {"MAP_EXISTING", "CREATE_NEW"}
    \/ /\ l.op = "apply"
       /\ l.args[1].file_hash = h.file_hash
       /\ h.row_no \in DOMAIN l.args[1].decisions
       /\ l.args[1].decisions[h.row_no].mode \in {"use_existing", "create_new"}

\* C6: under every operation a RESOLVED hold keeps its status, and a SKIPPED
\* hold becomes OPEN only by an explicit MAP_EXISTING / CREATE_NEW decision
\* for that hold.
HoldStateMachine ==
    [][\A h \in holds : \A g \in holds' :
          g.id = h.id =>
             /\ (h.status = "RESOLVED" => g.status = "RESOLVED")
             /\ (h.status = "SKIPPED" /\ g.status = "OPEN"
                    => ExplicitDecision(log', h))]_vars

\* C7: apply_import never updates an existing customer with, nor attaches a
\* contract to it from, a row whose normalized name differs from the stored
\* name, unless the row's decision named that customer.
NoSilentReassignment ==
    log.op = "apply" =>
        \A i \in 1..Len(log.out) :
            log.out[i].cust = "Update" =>
                normalize_name(log.out[i].stored_name[1]) = normalize_name(log.out[i].name)

(***************************************************************************)
(* Properties of batches                                                   *)
(***************************************************************************)
\* C1: when apply_import has run on the analysed rows and runs again on the
\* same rows with the same arguments (apply_same set), the second pass
\* answers same for every contract it hands to add_contract, creates no
\* customer and changes no customer field.
RerunIsSame ==
    [][(/\ log.op = "apply" /\ ~log.raised
        /\ log'.op = "apply"
        /\ log'.args = log.args
        /\ log.args[1].apply_same)
          => /\ ~log'.raised
             /\ \A i \in 1..Len(log'.out) :
                   log'.out[i].cont # "none" => log'.out[i].cont = "same"
             /\ customers' = customers]_vars

(***************************************************************************)
(* Properties of the analysis                                              *)
(***************************************************************************)
\* the row's phone is stored for a customer of another name
PhoneOfOther(r, c) ==
    /\ r.name # <<>>
    /\ normalize_phone(r.phone) # <<>>
    /\ c.phone_norm = normalize_phone(r.phone)
    /\ normalize_name(c.name) # r.name

Held(r) == r.customer_status = "HOLD" /\ r.customer_id = NoId

FileConflict(rows, i, j) ==
    /\ normalize_phone(rows[i].phone) # <<>>
    /\ normalize_phone(rows[i].phone) = normalize_phone(rows[j].phone)
    /\ rows[i].name # <<>>
    /\ rows[j].name # <<>>
    /\ rows[i].name # rows[j].name

HeldRow(r) == r.customer_status = "HOLD" /\ r.row_status = "HOLD"

\* C4 as stated: when two rows of a file carry one phone under two names,
\* every row with that phone is HOLD, customer and row.
FileConflictHeld_every_row ==
    (log.op = "analyze" /\ ana.ok) =>
        \A i \in 1..Len(ana.rows) : \A j \in 1..Len(ana.rows) :
            FileConflict(ana.rows, i, j) =>
                \A k \in 1..Len(ana.rows) :
                    normalize_phone(ana.rows[k].phone) = normalize_phone(ana.rows[i].phone)
                        => HeldRow(ana.rows[k])

\* C4, amended: when two rows of a file carry one phone under two names,
\* every row with that phone and a name is HOLD, customer and row; a row
\* with that phone and no name stays FAIL.
FileConflictHeld ==
    (log.op = "analyze" /\ ana.ok) =>
        \A i \in 1..Len(ana.rows) : \A j \in 1..Len(ana.rows) :
            FileConflict(ana.rows, i, j) =>
                \A k \in 1..Len(ana.rows) :
                    normalize_phone(ana.rows[k].phone) = normalize_phone(ana.rows[i].phone)
                        => IF ana.rows[k].name # <<>>
                           THEN HeldRow(ana.rows[k])
                           ELSE /\ ana.rows[k].customer_status = "FAIL"
                                /\ ana.rows[k].row_status = "FAIL"

\* on a store without customers, where each row alone would be new, an
\* analysis has held the rows of a conflict and left a nameless row FAIL
FileConflictHeld_witness ==
    /\ log.op = "analyze"
    /\ ana.ok
    /\ customers = {}
    /\ \E i \in 1..Len(ana.rows) : \E j \in 1..Len(ana.rows) : \E k \in 1..Len(ana.rows) :
          /\ FileConflict(ana.rows, i, j)
          /\ HeldRow(ana.rows[i])
          /\ ana.rows[i].customer_reason = "FILE_PHONE_CONFLICT"
          /\ normalize_phone(ana.rows[k].phone) = normalize_phone(ana.rows[i].phone)
          /\ ana.rows[k].customer_status = "FAIL"

(***************************************************************************)
(* Properties of the corporate routing                                     *)
(***************************************************************************)
\* the policyholder of an ETL row is corporate and the insured is another,
\* named party
CorporateInput(row) ==
    /\ row.financial # <<>>
    /\ _is_corporate_name(strip(row.name))
    /\ remove_ws(strip(row.financial[1].insured_name)) # <<>>
    /\ remove_ws(strip(row.financial[1].insured_name)) # remove_ws(strip(row.name))

\* the tags and the identity fields that do not depend on a fallback
RoutedToInsured(row, r) ==
    /\ r.name = normalize_name(row.financial[1].insured_name)
    /\ r.phone = IF strip(row.financial[1].insured_phone) # <<>>
                 THEN strip(row.financial[1].insured_phone) ELSE strip(row.phone)
    /\ r.policyholder_type = "CORP"
    /\ r.primary_role = "INSURED"

\* the contracts apply_import wrote for corporate rows of the analysed file
\* store CORP and INSURED
WrittenAsCorporate ==
    log.op = "apply" =>
        \A i \in 1..Len(log.out) :
            (log.out[i].written # <<>>
               /\ CorporateInput(CatalogCorp[ana.file[log.out[i].seq]]))
              => /\ log.out[i].written[1].policyholder_type = "CORP"
                 /\ log.out[i].written[1].primary_role = "INSURED"

\* C9 as stated: a corporate row is analysed with the insured's name, phone
\* (the policyholder's when blank), birth date and gender and tagged CORP /
\* INSURED, and the contract written for it stores CORP / INSURED.
CorporateRouting_insured_only ==
    /\ (log.op = "analyze" /\ ana.ok) =>
          \A i \in 1..Len(ana.rows) :
              LET row == CatalogCorp[ana.file[i]] IN
              CorporateInput(row) =>
                 /\ RoutedToInsured(row, ana.rows[i])
                 /\ ana.rows[i].birth_date = strip(row.financial[1].insured_birth)
                 /\ ana.rows[i].gender = strip(row.financial[1].insured_gender)
    /\ WrittenAsCorporate

\* C9, amended: as stated, but birth date and gender are the insured's when
\* given and the row's own otherwise.
CorporateRouting ==
    /\ (log.op = "analyze" /\ ana.ok) =>
          \A i \in 1..Len(ana.rows) :
              LET row == CatalogCorp[ana.file[i]] IN
              CorporateInput(row) =>
                 /\ RoutedToInsured(row, ana.rows[i])
                 /\ ana.rows[i].birth_date =
                       IF strip(row.financial[1].insured_birth) # <<>>
                       THEN strip(row.financial[1].insured_birth)
                       ELSE strip(row.birth_date)
                 /\ ana.rows[i].gender =
                       IF strip(row.financial[1].insured_gender) # <<>>
                       THEN strip(row.financial[1].insured_gender)
                       ELSE strip(row.gender)
    /\ WrittenAsCorporate

\* apply_import has written the contract of a corporate row for a customer
\* that carries the insured's name
CorporateRouting_witness ==
    /\ log.op = "apply"
    /\ \E i \in 1..Len(log.out) :
          /\ log.out[i].written # <<>>
          /\ CorporateInput(CatalogCorp[ana.file[log.out[i].seq]])
          /\ log.out[i].written[1].policyholder_type = "CORP"
          /\ \E c \in customers :
                /\ c.id = log.out[i].written[1].customer_id
                /\ c.name = normalize_name(
                       CatalogCorp[ana.file[log.out[i].seq]].financial[1].insured_name)

(***************************************************************************)
(* Properties of add_contract                                              *)
(***************************************************************************)
\* the policy number as the identity scheme reads it
PolicyKey(x) == upper(SelectSeq(x, IsAlnum))

\* every content field of the call equals the stored one
ContentUnchanged(c, a) ==
    /\ _norm_text(c.company) = _norm_text(a.company)
    /\ _norm_text(c.product_name) = _norm_text(a.product_name)
    /\ c.premium = _norm_premium(a.premium)
    /\ _norm_text(c.status) = _norm_text(a.status)
    /\ c.start_date = _norm_date(a.start_date)
    /\ c.end_date = _norm_date(a.end_date)
    /\ _norm_name(c.insured_name) = _norm_name(a.insured_name)
    /\ _norm_text(c.insured_phone) = _norm_text(a.insured_phone)
    /\ _norm_birth(c.insured_birth) = _norm_birth(a.insured_birth)
    /\ _norm_text(c.insured_gender) = _norm_text(a.insured_gender)
    /\ _norm_text(c.coverage_summary) = _norm_text(a.coverage_summary)

\* the stored contract of the call's customer and company that carries the
\* call's policy number
SamePolicy(c, a) ==
    /\ c.customer_id = a.customer_id
    /\ _norm_text(c.company) = _norm_text(a.company)
    /\ c.policy_no_norm # <<>>
    /\ c.policy_no_norm = PolicyKey(a.policy_no)

\* C8: an add_contract call that meets a stored contract of the same
\* customer and company with the same normalized policy number returns
\* same when the content is unchanged and update otherwise, and the number
\* of contracts does not grow.
PolicyDedup ==
    [][log'.op = "add" =>
          \A c \in contracts :
              SamePolicy(c, log'.args[1]) =>
                 /\ log'.out[1] = IF ContentUnchanged(c, log'.args[1])
                                  THEN "same" ELSE "update"
                 /\ Cardinality(contracts') = Cardinality(contracts)]_vars

\* a call whose raw policy text differs from the stored one was answered same
PolicyDedup_witness ==
    /\ log.op = "add"
    /\ log.out[1] = "same"
    /\ \E c \in contracts :
          /\ SamePolicy(c, log.args[1])
          /\ c.policy_no # log.args[1].policy_no

(***************************************************************************)
(* Properties of is_name_match                                             *)
(***************************************************************************)
\* C10: is_name_match answers true exactly when both arguments are
\* non-empty, their stripped texts have equal length, and every masked
\* character is a wildcard or equals the real character at its position.
NameMatchExact ==
    nm.out # "idle" =>
        ((nm.out = "true") <=>
            LET r == strip(nm.real)
                m == strip(nm.masked)
            IN  /\ nm.real # <<>>
                /\ nm.masked # <<>>
                /\ Len(r) = Len(m)
                /\ \A i \in 1..Len(m) : m[i] \in {"*", "?", "X", "x"} \/ m[i] = r[i])

\* a match that needed a wildcard: some masked character differs from the
\* real one
NameMatchExact_witness ==
    /\ nm.out = "true"
    /\ \E i \in 1..Len(strip(nm.masked)) : strip(nm.masked)[i] # strip(nm.real)[i]


(***************************************************************************)
(* Properties of the contracts table                                       *)
(***************************************************************************)
\* C11: in every reachable state no two contract rows have the same
\* key_hash, also after an update that rewrote the matched row's key_hash.
KeyHashUnique ==
    \A c1 \in contracts : \A c2 \in contracts :
        c1.key_hash = c2.key_hash => c1.id = c2.id

\* add_contract has just answered update and the keys of the table are no
\* longer the keys it found, while another contract is stored as well
KeyHashUnique_witness ==
    /\ log.op = "add"
    /\ log.out[1] = "update"
    /\ {c.key_hash : c \in contracts} # log.out[2]
    /\ Cardinality(contracts) = 2


(***************************************************************************)
(* Properties of contract ownership                                        *)
(***************************************************************************)
\* C12: in every state reachable by apply_import, apply_upload_hold_decision
\* (MAP_EXISTING with any target id included) and delete_customer, every
\* contract's customer_id is the id of a stored customer.
ContractOwnerExists ==
    \A c \in contracts : c.customer_id \in Ids(customers)

\* delete_customer has just removed a customer together with its contracts
\* while another customer's contract stays stored
ContractOwnerExists_witness ==
    /\ log.op = "delete"
    /\ log.out[1] # {}
    /\ contracts # {}


(***************************************************************************)
(* Properties of the write unit of a row                                   *)
(***************************************************************************)
\* C13: when the contract write of a row fails, by an answer fail / ambig
\* of add_contract or by an error raised after the customer write, the
\* customer write made for that row is not left committed: a hold decision
\* that raises leaves the customers as they were, and a customer inserted
\* by a row of apply_import whose contract failed is not stored afterwards.
RowWriteAtomic ==
    [][/\ (log'.op = "decide" /\ log'.raised) => customers' = customers
       /\ log'.op = "apply" =>
             \A i \in 1..Len(log'.out) :
                 (log'.out[i].cust = "Insert" /\ log'.out[i].cont \in {"fail", "ambig"})
                    => log'.out[i].cid \notin Ids(customers')]_vars


\* C14: apply_import never raises, whatever the status and the decision of
\* a row, and it processes every row of the batch.
ApplyNeverRaises ==
    log.op = "apply" =>
        /\ ~log.raised
        /\ Len(log.out) = Len(ana.rows)


(***************************************************************************)
(* Properties of the analysis as an operation                              *)
(***************************************************************************)
\* C15: analyze_processed_df raises for no input: it returns one
\* classification for every row of the file, also for rows that resolve to
\* a stored customer and carry a contract sub-record.
AnalysisNeverRaises ==
    log.op = "analyze" =>
        /\ ~log.raised
        /\ Len(ana.rows) = Len(ana.file)


Decided(d) ==
    \/ d.mode = "use_existing" /\ d.customer_id # NoId
    \/ d.mode = "create_new"

\* C17: apply_import creates or updates no customer and writes no contract
\* for a row whose customer_status is HOLD unless the row's decision is
\* use_existing with a customer id or create_new, also with allow_hold; a
\* batch of undecided held rows leaves customers and contracts as they were.
HoldNeedsDecision ==
    [][log'.op = "apply" =>
          LET p == log'.args[1]
              undecided(s) == /\ ana.rows[s].customer_status = "HOLD"
                              /\ ~Decided(p.decisions[s])
          IN  /\ \A i \in 1..Len(log'.out) :
                    undecided(log'.out[i].seq) =>
                       /\ log'.out[i].cust = "skip"
                       /\ log'.out[i].cont = "none"
                       /\ log'.out[i].written = <<>>
              /\ (\A s \in 1..Len(ana.rows) : undecided(s)) =>
                    /\ customers' = customers
                    /\ contracts' = contracts]_vars

\* apply_import has run with allow_hold on a batch of held rows without
\* decisions
HoldNeedsDecision_witness ==
    /\ log.op = "apply"
    /\ log.args[1].allow_hold
    /\ Len(log.out) = Len(ana.rows)
    /\ \A s \in 1..Len(ana.rows) :
          /\ ana.rows[s].customer_status = "HOLD"
          /\ log.args[1].decisions[s] = NoDecision


\* the operation recorded in l carries a decision for hold h
CarriesDecision(l, h) ==
    \/ l.op \in {"decide", "mark"} /\ l.args[1] = h.id
    \/ /\ l.op = "apply"
       /\ l.args[1].file_hash = h.file_hash
       /\ h.row_no \in DOMAIN l.args[1].decisions
       /\ l.args[1].decisions[h.row_no] # NoDecision

\* C18: the status of a hold changes from OPEN to SKIPPED or RESOLVED only
\* inside an operation that carries a decision for that hold; apply_import
\* on a HOLD row without an entry in decisions leaves the hold OPEN.
OpenLeavesByDecision ==
    [][\A h \in holds : \A g \in holds' :
          (g.id = h.id /\ h.status = "OPEN" /\ g.status \in {"SKIPPED", "RESOLVED"})
             => CarriesDecision(log', h)]_vars


(***************************************************************************)
(* Properties of the decision trail                                        *)
(***************************************************************************)
\* every table of the trail has a record for hold id among recs
Recorded(recs, id) ==
    \A t \in AuditTables :
        \E x \in recs : x.table = t /\ x.ref_table = "upload_holds" /\ x.hold_id = id

\* C19: whenever a SKIP, MAP_EXISTING or CREATE_NEW decision takes effect on
\* a hold (its status changes, a customer is created or a contract is
\* written for it), through apply_upload_hold_decision or through the
\* decisions of apply_import, the operation has appended a hold_decisions,
\* an approval_proofs and an audit_logs record for that hold when it ends.
DecisionsRecorded ==
    [][/\ log'.op = "decide" =>
             \A h \in holds :
                 (/\ h.id = log'.args[1]
                  /\ \/ h \notin holds'
                     \/ customers' # customers)
                    => Recorded(log'.out[2], h.id)
       /\ log'.op = "apply" =>
             \A i \in 1..Len(log'.out) :
                 \A h \in HoldAt(holds, log'.args[1].file_hash, log'.out[i].seq) :
                     (/\ ana.rows[log'.out[i].seq].customer_status = "HOLD"
                      /\ \/ h \notin holds'
                         \/ log'.out[i].written # <<>>)
                        => Recorded(log'.out[i].records, h.id)]_vars


(***************************************************************************)
(* Properties of the hold after the contract reconciliation                *)
(***************************************************************************)
Clean == {"insert", "update", "same"}

\* the hold g has the status the answer res of add_contract asks for
StatusFollows(g, res) ==
    /\ (g.status = "RESOLVED") <=> (res \in Clean)
    /\ res \in {"ambig", "fail"} => g.status = "OPEN"

\* C20: after apply_upload_hold_decision with MAP_EXISTING or CREATE_NEW,
\* and after apply_import has applied a decision to a HOLD row, the hold is
\* RESOLVED exactly when add_contract answers insert, update or same for
\* the row's contract, and OPEN when it answers ambig or fail.
ContractOutcomeSetsHold ==
    [][/\ (/\ log'.op = "decide"
           /\ ~log'.args[4]
           /\ \/ log'.args[2] = "MAP_EXISTING" /\ log'.args[3] # NoId
              \/ log'.args[2] = "CREATE_NEW")
          => \A h \in holds : \A g \in holds' :
                (h.id = log'.args[1] /\ g.id = h.id /\ h.raw.financial # <<>>)
                   => LET cid == IF log'.args[2] = "MAP_EXISTING"
                                 THEN log'.args[3] ELSE seqs.customer
                      IN  StatusFollows(g, add_contract(customers', contracts, seqs.contract,
                                                        FinArgs(cid, h.raw)).res)
       /\ log'.op = "apply" =>
             \A i \in 1..Len(log'.out) :
                 \A g \in HoldAt(holds', log'.args[1].file_hash, log'.out[i].seq) :
                     (/\ ana.rows[log'.out[i].seq].customer_status = "HOLD"
                      /\ log'.out[i].cust = "chosen"
                      /\ log'.out[i].cont # "none")
                        => StatusFollows(g, log'.out[i].cont)]_vars


(***************************************************************************)
(* Properties of the customer writes                                       *)
(***************************************************************************)
\* C21: a CREATE_NEW decision, through apply_upload_hold_decision or through
\* the decisions of apply_import, inserts one new customer for its row, also
\* when a customer with the same phone_norm is stored, and leaves every
\* stored customer as it was.
CreateNewInsertsOne ==
    [][/\ (log'.op = "decide" /\ log'.args[2] = "CREATE_NEW" /\ ~log'.args[4])
          => /\ customers \subseteq customers'
             /\ Cardinality(customers') = Cardinality(customers) + 1
       /\ log'.op = "apply" =>
             \A s \in 1..Len(ana.rows) :
                 (/\ ana.rows[s].customer_status = "HOLD"
                  /\ log'.args[1].decisions[s].mode = "create_new")
                    => /\ \A c \in customers :
                             c.phone_norm = normalize_phone(ana.rows[s].phone)
                                => c \in customers'
                       /\ \E c \in customers' \ customers :
                             /\ c.name = strip(ana.rows[s].name)
                             /\ c.phone = strip(ana.rows[s].phone)]_vars


MapExistingNeedsTarget ==
    [][/\ (/\ log'.op = "decide"
           /\ log'.args[2] = "MAP_EXISTING"
           /\ ~log'.args[4]
           /\ log'.args[3] \notin Ids(customers))
          => /\ ~log'.raised
             /\ log'.out[1] = FALSE
             /\ contracts' = contracts
             /\ \A h \in holds : \A g \in holds' :
                   (g.id = h.id /\ g.id = log'.args[1] /\ g.status = "RESOLVED")
                      => h.status = "RESOLVED"
       /\ log'.op = "apply" =>
             \A i \in 1..Len(log'.out) :
                 LET d == log'.args[1].decisions[log'.out[i].seq] IN
                 (/\ ana.rows[log'.out[i].seq].customer_status = "HOLD"
                  /\ d.mode = "use_existing"
                  /\ d.customer_id \notin Ids(customers'))
                    => /\ log'.out[i].written = <<>>
                       /\ log'.out[i].cont \in {"none", "fail"}
                       /\ \A g \in HoldAt(holds', log'.args[1].file_hash, log'.out[i].seq) :
                             g.status = "RESOLVED" => g \in holds]_vars


(***************************************************************************)
(* Properties of the trail                                                 *)
(***************************************************************************)
\* C24: no operation (apply_import, apply_upload_hold_decision,
\* sync_upload_holds, update_upload_hold_corrected, set_upload_hold_status,
\* delete_customer) updates or deletes a hold_decisions, approval_proofs or
\* audit_logs record: across every step the records only grow.
TrailAppendOnly ==
    [][trail \subseteq trail']_vars

\* a SKIP decision of the hold screen has been recorded for a hold that
\* already had the records of a MAP_EXISTING decision, and both are stored
TrailAppendOnly_witness ==
    /\ log.op = "decide"
    /\ log.args[2] = "SKIP"
    /\ DecisionRecords(log.args[1], "SKIP") \subseteq trail
    /\ DecisionRecords(log.args[1], "MAP_EXISTING") \subseteq trail


(***************************************************************************)
(* Properties of the lookups of the analysis                               *)
(***************************************************************************)
Elems(s) == {s[k] : k \in DOMAIN s}

SameName(c, r) == SelectSeq(c.name, LAMBDA x : x # " ") = r.name

\* the row has a name and no digit in its phone
NoPhone(r) == r.name # <<>> /\ normalize_phone(r.phone) = <<>>

\* the candidates of the first set that is not empty
FirstHit(a, b, c) == IF a # {} THEN a ELSE IF b # {} THEN b ELSE c

\* the customers with the row's match key (its own, or name and last four
\* digits) and those with its name and last four digits
ByKey(r, given) ==
    LET last4 == _phone_last4_from_raw(r.phone)
        mk == IF given = <<>> /\ last4 # <<>> THEN make_match_key(r.name, last4) ELSE given
    IN  IF mk = <<>> THEN {} ELSE {c.id : c \in {x \in customers : x.match_key = mk}}

ByLast4(r) ==
    LET last4 == _phone_last4_from_raw(r.phone) IN
    IF last4 = <<>> THEN {}
    ELSE {c.id : c \in {x \in customers : SameName(x, r) /\ Len(x.phone_norm) >= 4
                                           /\ last_n(x.phone_norm, 4) = last4}}

\* the row is HOLD with the candidates hit, or FAIL when hit is empty
HoldOrFail(r, hit) ==
    /\ r.customer_id = NoId
    /\ IF hit # {}
       THEN r.customer_status = "HOLD" /\ Elems(r.customer_candidates) = hit
       ELSE r.customer_status = "FAIL"

\* C25 as stated: a named row without a normalized phone is HOLD with the
\* candidates of the first lookup that hits, by match_key, then by name and
\* last four digits, then by name and birth date, and FAIL when none hits.
NoPhoneLookup_name_birth ==
    (log.op = "analyze" /\ ana.ok) =>
        \A i \in 1..Len(ana.rows) :
            LET r == ana.rows[i] IN
            NoPhone(r) =>
                HoldOrFail(r, FirstHit(ByKey(r, strip(CatalogLookup[ana.file[i]].match_key)),
                                       ByLast4(r),
                                       {c.id : c \in {x \in customers :
                                            SameName(x, r) /\ x.birth_date = r.birth_date}}))

\* C25, amended: as stated, but the third lookup is by name alone, whatever
\* the birth dates of the row and of the customer.
NoPhoneLookup ==
    (log.op = "analyze" /\ ana.ok) =>
        \A i \in 1..Len(ana.rows) :
            LET r == ana.rows[i] IN
            NoPhone(r) =>
                HoldOrFail(r, FirstHit(ByKey(r, strip(CatalogLookup[ana.file[i]].match_key)),
                                       ByLast4(r),
                                       {c.id : c \in {x \in customers : SameName(x, r)}}))

\* one analysis has held a row without phone for a customer of its name
\* with another birth date, held a row by its match key alone, and failed
\* a row that no lookup hits
NoPhoneLookup_witness ==
    /\ log.op = "analyze"
    /\ ana.ok
    /\ \E i \in 1..Len(ana.rows) : \E c \in customers :
          /\ NoPhone(ana.rows[i])
          /\ ana.rows[i].customer_reason = "SAME_NAME_CANDIDATES"
          /\ ana.rows[i].birth_date # <<>>
          /\ SameName(c, ana.rows[i])
          /\ c.birth_date # ana.rows[i].birth_date
    /\ \E i \in 1..Len(ana.rows) :
          /\ NoPhone(ana.rows[i])
          /\ ana.rows[i].customer_reason = "MATCH_KEY_CANDIDATES"


\* the row has a name and a normalized phone that no customer has
NewPhone(r) ==
    /\ r.name # <<>>
    /\ normalize_phone(r.phone) # <<>>
    /\ \A c \in customers : c.phone_norm # normalize_phone(r.phone)

\* the row is HOLD with the customers hit, or NEW when there is none
HoldOrNew(r, hit) ==
    /\ r.customer_id = NoId
    /\ IF hit # {}
       THEN r.customer_status = "HOLD" /\ Elems(r.customer_candidates) = hit
       ELSE r.customer_status = "NEW"

\* C26 as stated: a named row whose phone no customer has is HOLD exactly
\* when a customer has its name and its birth date, and NEW otherwise, also
\* when the row's birth date is blank.
NewPhoneRule_same_birth ==
    (log.op = "analyze" /\ ana.ok) =>
        \A i \in 1..Len(ana.rows) :
            LET r == ana.rows[i] IN
            NewPhone(r) =>
                HoldOrNew(r, {c.id : c \in {x \in customers :
                                 SameName(x, r) /\ x.birth_date = r.birth_date}})

\* C26, amended: the row is HOLD exactly when a customer has its name and,
\* if the row has a birth date, that birth date; a row with a blank birth
\* date is HOLD for any customer of its name.
NewPhoneRule ==
    (log.op = "analyze" /\ ana.ok) =>
        \A i \in 1..Len(ana.rows) :
            LET r == ana.rows[i] IN
            NewPhone(r) =>
                HoldOrNew(r, {c.id : c \in {x \in customers :
                                 SameName(x, r)
                                 /\ (r.birth_date = <<>> \/ x.birth_date = r.birth_date)}})

\* one analysis has made a row NEW although a customer of its name has
\* another birth date, and has held a row with a blank birth date for a
\* customer of its name who has a birth date
NewPhoneRule_witness ==
    /\ log.op = "analyze"
    /\ ana.ok
    /\ \E i \in 1..Len(ana.rows) : \E c \in customers :
          /\ NewPhone(ana.rows[i])
          /\ ana.rows[i].customer_status = "NEW"
          /\ SameName(c, ana.rows[i])
          /\ c.birth_date # ana.rows[i].birth_date
    /\ \E i \in 1..Len(ana.rows) : \E c \in customers :
          /\ NewPhone(ana.rows[i])
          /\ ana.rows[i].customer_status = "HOLD"
          /\ ana.rows[i].birth_date = <<>>
          /\ SameName(c, ana.rows[i])
          /\ c.birth_date # <<>>


(***************************************************************************)
(* Properties of add_contract's matching                                   *)
(***************************************************************************)
\* the contracts of the call's customer
Mine(a) == {c \in contracts : c.customer_id = a.customer_id}

\* steps 1 and 2 find no row for the call
NoKeyNoPolicy(a) ==
    LET cols == ContractColumns(a)
        pm == {c \in Mine(a) : c.policy_no_norm = cols.policy_no_norm}
    IN  /\ \A c \in contracts : c.key_hash # cols.key_hash
        /\ \/ cols.policy_no_norm = <<>>
           \/ pm = {}
           \/ Cardinality(pm) > 1 /\ \A c \in pm : c.content_hash # cols.content_hash

\* the contracts of the customer with the call's stable_hash
StableRows(a) == {c \in Mine(a) : c.stable_hash = ContractColumns(a).stable_hash}

\* several contracts have the call's stable_hash, none its content_hash
SeveralStable(a) ==
    /\ NoKeyNoPolicy(a)
    /\ Cardinality(StableRows(a)) > 1
    /\ \A c \in StableRows(a) : c.content_hash # ContractColumns(a).content_hash

\* the call has rewritten the row old with its own columns and nothing else
UpdatedOnly(old, a) ==
    /\ contracts' = (contracts \ {old})
                        \cup {ContractRow(old.id, old.customer_id, ContractColumns(a))}
    /\ seqs'.contract = seqs.contract

\* C27: when steps 1 and 2 find nothing and several contracts of the
\* customer have the incoming stable_hash, none with the incoming
\* content_hash, add_contract answers ambig and writes nothing if they carry
\* different non-blank policy numbers, and updates the one with the lowest
\* id, inserting nothing, if all of them have a blank policy number.
StableTieBreak ==
    [][log'.op = "add" =>
        LET a == log'.args[1]
            pols == {c.policy_no_norm : c \in StableRows(a)}
        IN  SeveralStable(a) =>
              /\ Cardinality(pols \ {<<>>}) > 1 =>
                     log'.out[1] = "ambig" /\ contracts' = contracts
              /\ pols = {<<>>} =>
                     /\ log'.out[1] = "update"
                     /\ UpdatedOnly(ById(StableRows(a))[1], a)]_vars

\* add_contract has just answered ambig for a call whose stable_hash two
\* contracts of the customer have under two different policy numbers
StableTieBreak_witness ==
    /\ log.op = "add"
    /\ log.out[1] = "ambig"
    /\ \E c1 \in StableRows(log.args[1]) : \E c2 \in StableRows(log.args[1]) :
          /\ c1.policy_no_norm # <<>>
          /\ c2.policy_no_norm # <<>>
          /\ c1.policy_no_norm # c2.policy_no_norm

\* no two contracts of one customer have one stable_hash and both no policy
\* number: they would have one key_hash
BlankStableRowsUnique ==
    \A c1 \in contracts : \A c2 \in contracts :
        (/\ c1.customer_id = c2.customer_id
         /\ c1.stable_hash = c2.stable_hash
         /\ c1.policy_no_norm = <<>>
         /\ c2.policy_no_norm = <<>>) => c1.id = c2.id


\* C28: whenever add_contract answers same or ambig, the contracts table is
\* the same before and after the call, every row and every column.
SameAndAmbigWriteNothing ==
    [][(log'.op = "add" /\ log'.out[1] \in {"same", "ambig"}) =>
            contracts' = contracts /\ seqs'.contract = seqs.contract]_vars

\* add_contract has just answered same for a call that spells the policy
\* number otherwise than the stored row does
SameAndAmbigWriteNothing_witness ==
    /\ log.op = "add"
    /\ log.out[1] = "same"
    /\ \E c \in contracts :
          /\ c.key_hash = ContractColumns(log.args[1]).key_hash
          /\ c.policy_no # log.args[1].policy_no


\* C29: whenever add_contract answers update, exactly one stored contract
\* was modified and none inserted, the modified row keeps its id and its
\* customer_id, its content_hash and stable_hash are those of the incoming
\* fields, and the same call made again at once answers same.
UpdateRefreshesHashes ==
    [][(log'.op = "add" /\ log'.out[1] = "update") =>
        LET a == log'.args[1]
            cols == ContractColumns(a)
        IN  /\ seqs'.contract = seqs.contract
            /\ \E old \in contracts : \E new \in contracts' :
                  /\ new # old
                  /\ contracts' \ {new} = contracts \ {old}
                  /\ Cardinality(contracts') = Cardinality(contracts)
                  /\ new.id = old.id
                  /\ new.customer_id = old.customer_id
                  /\ new.content_hash = cols.content_hash
                  /\ new.stable_hash = cols.stable_hash
            /\ add_contract(customers', contracts', seqs'.contract, a).res = "same"]_vars

\* add_contract has just answered update: one contract of the customer has
\* the hashes of the call, under another stable_hash than the customer's
\* other contract
UpdateRefreshesHashes_witness ==
    /\ log.op = "add"
    /\ log.out[1] = "update"
    /\ \E c \in contracts : \E d \in contracts :
          /\ c.content_hash = ContractColumns(log.args[1]).content_hash
          /\ c.stable_hash = ContractColumns(log.args[1]).stable_hash
          /\ d.customer_id = c.customer_id
          /\ d.stable_hash # c.stable_hash


\* the call names the one contract of the customer with its stable_hash
\* under a policy number that is not the stored one
Drifted(x, a) ==
    /\ StableRows(a) = {x}
    /\ x.policy_no_norm # ContractColumns(a).policy_no_norm

\* company, product, start date, premium and insured birth date or name
Identity(c) ==
    _contract_key_hash(c.customer_id, c.company, <<>>, c.product_name, c.start_date,
                       c.premium, c.insured_birth, c.insured_name)

\* no other contract carries the call's number; for a call without number,
\* no other contract of the customer without number has the call's values
NotCarried(x, a) ==
    LET cols == ContractColumns(a) IN
    \A c \in contracts \ {x} :
        IF cols.policy_no_norm # <<>>
        THEN c.policy_no_norm # cols.policy_no_norm
        ELSE ~ (/\ c \in Mine(a)
                /\ c.policy_no_norm = <<>>
                /\ Identity(c) = Identity(ContractRow(NoId, a.customer_id, cols)))

\* C30: if exactly one contract of the customer has the call's company,
\* product, start date, premium and insured identity, and the call brings
\* another policy number (a new one, a first one, or none) that no other
\* contract carries, add_contract answers update, rewrites that contract and
\* inserts nothing.
PolicyDrift ==
    [][log'.op = "add" =>
        LET a == log'.args[1] IN
        \A x \in contracts :
            (Drifted(x, a) /\ NotCarried(x, a)) =>
                /\ log'.out[1] = "update"
                /\ UpdatedOnly(x, a)
                /\ Cardinality(contracts') = Cardinality(contracts)]_vars

\* add_contract has just answered update for a call without policy number
\* that no key_hash matched, while the customer's other contract has a number
PolicyDrift_witness ==
    /\ log.op = "add"
    /\ log.out[1] = "update"
    /\ ContractColumns(log.args[1]).policy_no_norm = <<>>
    /\ ContractColumns(log.args[1]).key_hash \notin log.out[2]
    /\ \E d \in Mine(log.args[1]) : d.policy_no_norm # <<>>

(***************************************************************************)
(* Properties of the contract preview                                      *)
(***************************************************************************)
\* the preview status that stands for each answer of add_contract
PreviewOf(res) ==
    IF res = "insert" THEN "NEW"
    ELSE IF res = "update" THEN "UPDATE"
    ELSE IF res = "same" THEN "SAME"
    ELSE IF res = "ambig" THEN "HOLD"
    ELSE ""

\* C31: for every stored customer and every contract of the form, the
\* preview returns the status that stands for what add_contract answers for
\* the same customer and fields on the same store.
PreviewAgreesWithApply ==
    \A cid \in Ids(customers) : \A pol \in PolicyTexts : \A prem \in PremiumTexts :
        LET a == ContractArgs(cid, pol, prem)
            p == _preview_contract_action(contracts, cid, a)
        IN  /\ ~ p.raised
            /\ p.status = PreviewOf(add_contract(customers, contracts, seqs.contract, a).res)


(***************************************************************************)
(* Properties of the hold store after an upload analysis                   *)
(***************************************************************************)
\* C32: once the upload screen has analysed a file and called
\* sync_upload_holds for its rows, the store holds exactly one record per
\* (file_hash, row_no) for each row whose row_status is HOLD, and none for
\* the other rows of the file.
HoldSyncUpsert ==
    (log.op = "analyze" /\ ana.ok) =>
        \A i \in 1..Len(ana.rows) :
            LET hs == HoldAt(holds, ana.file_hash, ana.rows[i].seq) IN
            IF ana.rows[i].row_status = "HOLD"
            THEN Cardinality(hs) = 1
            ELSE hs = {}


(***************************************************************************)
(* Properties of the masked contract import                                *)
(***************************************************************************)
\* the customers with the row's match key whose name fits the masked name
\* position by position
MaskedFits(masked_name, phone) ==
    {c \in customers :
        /\ c.match_key = make_match_key(masked_name, phone_last4(phone))
        /\ is_name_match(c.name, masked_name)}

\* C33: a row whose match key one or more customers have is attached, its
\* contract handed to add_contract for that customer, exactly when one of
\* them has a name that fits the masked name; with none it is counted
\* failed, with several ambiguous, and then no contract is written.
MaskedDualVerification ==
    [][log'.op = "masked" =>
        LET fits == MaskedFits(log'.args[1], log'.args[2])
            shared == \E c \in customers :
                         c.match_key = make_match_key(log'.args[1], phone_last4(log'.args[2]))
        IN  shared =>
              /\ Cardinality(fits) = 1 =>
                    /\ log'.out[2] \in {c.id : c \in fits}
                    /\ log'.out[1] = add_contract(customers, contracts, seqs.contract,
                                         [log'.args[3] EXCEPT !.customer_id = log'.out[2]]).res
              /\ fits = {} => log'.out[1] = "failed" /\ contracts' = contracts
              /\ Cardinality(fits) > 1 => log'.out[1] = "ambig" /\ contracts' = contracts]_vars


(***************************************************************************)
(* Properties of the role tag                                              *)
(***************************************************************************)
\* C34: in every analysed row, primary_role = INSURED implies that the
\* identity name is the insured's name, never the corporate policyholder's,
\* and primary_role = POLICYHOLDER implies that it is the policyholder's.
RoleAgreesWithIdentity ==
    (log.op = "analyze" /\ ana.ok) =>
        \A i \in 1..Len(ana.rows) :
            LET row == CatalogRole[ana.file[i]]
                insured == IF row.financial = <<>> THEN <<>>
                           ELSE normalize_name(row.financial[1].insured_name)
            IN  /\ ana.rows[i].primary_role = "INSURED" => ana.rows[i].name = insured
                /\ ana.rows[i].primary_role = "POLICYHOLDER" =>
                       ana.rows[i].name = normalize_name(row.name)


(***************************************************************************)
(* Decisions on holds without a contract                                   *)
(***************************************************************************)
BareHold(hold_id) ==
    \E h \in holds : h.id = hold_id /\ h.raw.financial = <<>>

\* C35: a MAP_EXISTING or CREATE_NEW decision on a hold whose stored row has
\* no financial sub-record inserts and updates no contract row.
BareDecisionWritesNoContract ==
    [][(/\ log'.op = "decide"
        /\ log'.args[2] \in {"MAP_EXISTING", "CREATE_NEW"}
        /\ BareHold(log'.args[1]))
       => contracts' = contracts]_vars

BareDecisionWritesNoContract_witness ==
    /\ log.op = "decide"
    /\ log.args[2] = "MAP_EXISTING"
    /\ log.args[3] # NoId
    /\ ~ log.args[4]
    /\ BareHold(log.args[1])
    /\ contracts # {}


(***************************************************************************)
(* Phones of the customers written by apply_import                         *)
(***************************************************************************)
PhoneUnique(custs) ==
    \A c1, c2 \in custs :
        (c1.id # c2.id /\ c1.phone_norm # <<>>) => c1.phone_norm # c2.phone_norm

NoCreateNew(decisions) ==
    \A i \in DOMAIN decisions : decisions[i].mode # "create_new"

\* C36: an apply_import call without create_new decision, on a store in
\* which no two customers share a non-empty phone_norm, leaves a store in
\* which no two customers share a non-empty phone_norm.
AutoImportKeepsPhonesUnique ==
    [][(/\ log'.op = "apply"
        /\ NoCreateNew(log'.args[1].decisions)
        /\ PhoneUnique(customers))
       => PhoneUnique(customers')]_vars

\* two rows of one batch with the same name and phone gave one customer
AutoImportKeepsPhonesUnique_witness ==
    /\ log.op = "apply"
    /\ ~ log.raised
    /\ NoCreateNew(log.args[1].decisions)
    /\ Len(log.out) = 2
    /\ log.out[1].cust = "Insert"
    /\ log.out[2].cust = "Update"
    /\ log.out[1].name = log.out[2].name
    /\ log.out[1].cid = log.out[2].cid
    /\ Cardinality(customers) = 1


(***************************************************************************)
(* Phones without a digit                                                  *)
(***************************************************************************)
\* C37: upsert_customer_identity and insert_customer_data never update, nor
\* attach a contract to, an existing customer when the incoming phone
\* normalizes to the empty text: the row is rejected or inserted as its own
\* customer.
EmptyPhoneNeverMatches ==
    /\ (log.op = "customer" /\ normalize_phone(log.args[2]) = <<>>)
           => log.out[1] \in {"required", "Insert"}
    /\ log.op = "data" =>
           \A i \in 1..Len(log.out) :
               normalize_phone(log.args[1][i].phone) = <<>>
                  => log.out[i].msg \in {"fail", "Insert"}


(***************************************************************************)
(* Calls that interleave on two connections                                *)
(***************************************************************************)
\* both connections have returned from calls of fn, and the lookup of each
\* came before the write of the other
Interleaved(fn) ==
    /\ \A i \in Conns : conns[i].fn = fn /\ conns[i].pc = "done"
    /\ \E i \in Conns : conns[i].peer # 0 /\ conns[i].peer = conns[Other(i)].call

\* C38: when two add_contract calls with identical arguments interleave,
\* each looking the key_hash up before either inserts, one returns insert,
\* the other same, and exactly one row with that key_hash is stored.
ConcurrentAddOnce ==
    (/\ Interleaved("add_contract")
     /\ conns[1].a = conns[2].a
     /\ \A i \in Conns : conns[i].plan = "insert"
     /\ conns[1].a.customer_id \in Ids(customers))
    => /\ {conns[1].res, conns[2].res} = {"insert", "same"}
       /\ Cardinality({c \in contracts :
               c.key_hash = ContractColumns(conns[1].a).key_hash}) = 1

ConcurrentAddOnce_witness ==
    /\ Interleaved("add_contract")
    /\ conns[1].a = conns[2].a
    /\ \A i \in Conns : conns[i].plan = "insert"
    /\ conns[1].a.customer_id \in Ids(customers)
    /\ conns[1].res = "same"
    /\ conns[2].res = "insert"

\* C39: when two upsert_customer_identity calls for one phone interleave, at
\* most one customer with that phone_norm exists afterwards.
ConcurrentUpsertOnce ==
    (/\ Interleaved("upsert_customer_identity")
     /\ normalize_phone(conns[1].a.phone) = normalize_phone(conns[2].a.phone))
    => Cardinality({c \in customers :
           c.phone_norm = normalize_phone(conns[1].a.phone)}) <= 1


(***************************************************************************)
(* Answers of the hold edits                                               *)
(***************************************************************************)
\* C40: whenever set_upload_hold_status or update_upload_hold_corrected
\* answers ok = False or raises, the upload_holds records are as before the
\* call; whenever a record was changed, the call answered ok = True.
HoldEditReportsState ==
    [][log'.op \in {"mark", "correct"} =>
          LET failed == log'.raised \/ (log'.op = "mark" /\ ~ log'.out[1])
          IN  /\ failed => holds' = holds
              /\ holds' # holds => ~ failed]_vars

====
